---------------------------- MODULE Spec2Model ----------------------------
(***************************************************************************)
(* A model of the cryptographic core of gmsm-fast:                         *)
(*   - sm9/bn256: curvePoint (G1, Jacobian coordinates over GF(p) in       *)
(*     Montgomery form) with Set, SetInfinity, Neg, Add, Double, Mul,      *)
(*     MakeAffine, IsOnCurve; and the addition chain gfP12ExpU;            *)
(*   - sm4: expandKeyAsm, encryptBlockAsm, encryptBlocksAsm.               *)
(*                                                                         *)
(* TLC has 32-bit integers, so the 256-bit prime field is scaled down to   *)
(* GF(37) with the same curve constant b = 5: like BN256's p, 37 is 1 mod  *)
(* 3, and y^2 = x^3 + 5 over GF(37) has 37 points, a group of prime order  *)
(* like G1.  Field elements are kept in Montgomery form a*R mod p as in    *)
(* the code, so that the constants zero and one the code compares against  *)
(* are the stored values 0 and R mod p.                                    *)
(***************************************************************************)
EXTENDS Integers, Sequences, FiniteSets, TLC

VARIABLES mem, last, eu, sm, s3

vars == <<mem, last, eu, sm, s3>>

---------------------------------------------------------------------------
(* gfP: the prime field in Montgomery form                                 *)

\* the field modulus (BN256's p, scaled down)
P == 37

\* the Montgomery radix, a power of two above p, reduced mod p (64 mod 37)
R == 27

\* R^-1 mod p
RInv == 11

GF == 0 .. (P - 1)

zero == 0

\* one = R mod p: the Montgomery form of 1
one == R % P

montEncode(a) == (a * R) % P

montDecode(a) == (a * RInv) % P

\* newGFp(x): the field element x in Montgomery form
newGFp(x) == montEncode(x % P)

gfpNeg(a) == (P - a) % P

gfpAdd(a, b) == (a + b) % P

gfpSub(a, b) == (a + P - b) % P

\* Montgomery multiplication: a*b*R^-1 mod p
gfpMul(a, b) == (a * b * RInv) % P

\* the inverse in Montgomery form: Invert(a)*a = one (a # 0); Invert(0) = 0
Invert(a) ==
    IF a = zero THEN zero ELSE CHOOSE b \in GF : gfpMul(a, b) = one

curveB == newGFp(5)

---------------------------------------------------------------------------
(* curvePoint: objects on a heap.  A memory m maps object names to records *)
(* [x, y, z, t]; an operation takes the names of its receiver c and of its *)
(* arguments, reads and writes m field by field in the order of the code,  *)
(* and returns the new memory, so that c may name the same object as an    *)
(* argument.                                                               *)

\* the caller's points
Objs == {"p", "q"}

\* sum and t are the locals of Mul, fresh is a newly allocated receiver
Locals == {"sum", "t", "fresh"}

AllObjs == Objs \cup Locals

\* &curvePoint{}: Go's zero value
ZeroPoint == [x |-> zero, y |-> zero, z |-> zero, t |-> zero]

\* the caller's memory extended with newly allocated locals
Ext(m) == [o \in AllObjs |-> IF o \in DOMAIN m THEN m[o] ELSE ZeroPoint]

Restrict(m) == [o \in Objs |-> m[o]]

curveGenX == newGFp(14)

curveGenY == newGFp(23)

\* the generator of G1 (scaled down: (14, 23) is on y^2 = x^3 + 5 over GF(37))
curveGen == [x |-> curveGenX, y |-> curveGenY, z |-> one, t |-> one]

\* Set without its last statement
SetWithoutT(m, c, a) ==
    LET m1 == [m  EXCEPT ![c].x = m[a].x]
        m2 == [m1 EXCEPT ![c].y = m1[a].y]
    IN  [m2 EXCEPT ![c].z = m2[a].z]

Set(m, c, a) ==
    LET m1 == [m  EXCEPT ![c].x = m[a].x]
        m2 == [m1 EXCEPT ![c].y = m1[a].y]
        m3 == [m2 EXCEPT ![c].z = m2[a].z]
    IN  [m3 EXCEPT ![c].t = m3[a].t]

polynomial(x) ==
    LET x3a == gfpMul(x, x)
        x3b == gfpMul(x3a, x)
    IN  gfpAdd(x3b, curveB)

SetInfinity(m, c) ==
    [m EXCEPT ![c] = [x |-> zero, y |-> one, z |-> zero, t |-> zero]]

IsInfinity(pt) == pt.z = zero

\* MakeAffine with y multiplied by zInv2 alone
MakeAffineYOverZ2(m, c) ==
    IF m[c].z = one THEN m
    ELSE IF m[c].z = zero
    THEN [m EXCEPT ![c].x = zero, ![c].y = one, ![c].t = zero]
    ELSE LET zInv  == Invert(m[c].z)
             zInv2 == gfpMul(zInv, zInv)
             m1    == [m  EXCEPT ![c].x = gfpMul(m[c].x, zInv2)]
             m2    == [m1 EXCEPT ![c].y = gfpMul(m1[c].y, zInv2)]
         IN  [m2 EXCEPT ![c].z = one, ![c].t = one]

MakeAffine(m, c) ==
    IF m[c].z = one THEN m
    ELSE IF m[c].z = zero
    THEN [m EXCEPT ![c].x = zero, ![c].y = one, ![c].t = zero]
    ELSE LET zInv  == Invert(m[c].z)
             t1    == gfpMul(m[c].y, zInv)
             zInv2 == gfpMul(zInv, zInv)
             m1    == [m  EXCEPT ![c].x = gfpMul(m[c].x, zInv2)]
             m2    == [m1 EXCEPT ![c].y = gfpMul(t1, zInv2)]
         IN  [m2 EXCEPT ![c].z = one, ![c].t = one]

\* IsOnCurve normalises its receiver first: the memory it leaves
IsOnCurveMem(m, c) == MakeAffine(m, c)

\* and the boolean it returns
IsOnCurve(m, c) ==
    LET m1 == MakeAffine(m, c)
    IN  IF IsInfinity(m1[c]) THEN TRUE
        ELSE gfpMul(m1[c].y, m1[c].y) = polynomial(m1[c].x)

Neg(m, c, a) ==
    LET m1 == [m  EXCEPT ![c].x = m[a].x]
        m2 == [m1 EXCEPT ![c].y = gfpNeg(m1[a].y)]
        m3 == [m2 EXCEPT ![c].z = m2[a].z]
    IN  [m3 EXCEPT ![c].t = zero]

\* Double with the tangent slope numerator 2*x^2 in place of 3*x^2
DoubleSlopeTwice(m, c, a) ==
    LET A   == gfpMul(m[a].x, m[a].x)
        B   == gfpMul(m[a].y, m[a].y)
        C   == gfpMul(B, B)
        ta  == gfpAdd(m[a].x, B)
        t2a == gfpMul(ta, ta)
        tb  == gfpSub(t2a, A)
        t2b == gfpSub(tb, C)
        d   == gfpAdd(t2b, t2b)
        e   == gfpAdd(A, A)
        f   == gfpMul(e, e)
        td  == gfpAdd(d, d)
        m1  == [m  EXCEPT ![c].x = gfpSub(f, td)]
        m2  == [m1 EXCEPT ![c].z = gfpMul(m1[a].y, m1[a].z)]
        m3  == [m2 EXCEPT ![c].z = gfpAdd(m2[c].z, m2[c].z)]
        te  == gfpAdd(C, C)
        t2c == gfpAdd(te, te)
        tf  == gfpAdd(t2c, t2c)
        m4  == [m3 EXCEPT ![c].y = gfpSub(d, m3[c].x)]
        t2d == gfpMul(e, m4[c].y)
    IN  [m4 EXCEPT ![c].y = gfpSub(t2d, tf)]

\* Double that computes z = 2*y*z last, after it has stored the new y
DoubleZLast(m, c, a) ==
    LET A   == gfpMul(m[a].x, m[a].x)
        B   == gfpMul(m[a].y, m[a].y)
        C   == gfpMul(B, B)
        ta  == gfpAdd(m[a].x, B)
        t2a == gfpMul(ta, ta)
        tb  == gfpSub(t2a, A)
        t2b == gfpSub(tb, C)
        d   == gfpAdd(t2b, t2b)
        tc  == gfpAdd(A, A)
        e   == gfpAdd(tc, A)
        f   == gfpMul(e, e)
        td  == gfpAdd(d, d)
        m1  == [m  EXCEPT ![c].x = gfpSub(f, td)]
        te  == gfpAdd(C, C)
        t2c == gfpAdd(te, te)
        tf  == gfpAdd(t2c, t2c)
        m2  == [m1 EXCEPT ![c].y = gfpSub(d, m1[c].x)]
        t2d == gfpMul(e, m2[c].y)
        m3  == [m2 EXCEPT ![c].y = gfpSub(t2d, tf)]
        m4  == [m3 EXCEPT ![c].z = gfpMul(m3[a].y, m3[a].z)]
    IN  [m4 EXCEPT ![c].z = gfpAdd(m4[c].z, m4[c].z)]

Double(m, c, a) ==
    LET A   == gfpMul(m[a].x, m[a].x)
        B   == gfpMul(m[a].y, m[a].y)
        C   == gfpMul(B, B)
        ta  == gfpAdd(m[a].x, B)
        t2a == gfpMul(ta, ta)
        tb  == gfpSub(t2a, A)
        t2b == gfpSub(tb, C)
        d   == gfpAdd(t2b, t2b)
        tc  == gfpAdd(A, A)
        e   == gfpAdd(tc, A)
        f   == gfpMul(e, e)
        td  == gfpAdd(d, d)
        m1  == [m  EXCEPT ![c].x = gfpSub(f, td)]
        m2  == [m1 EXCEPT ![c].z = gfpMul(m1[a].y, m1[a].z)]
        m3  == [m2 EXCEPT ![c].z = gfpAdd(m2[c].z, m2[c].z)]
        te  == gfpAdd(C, C)
        t2c == gfpAdd(te, te)
        tf  == gfpAdd(t2c, t2c)
        m4  == [m3 EXCEPT ![c].y = gfpSub(d, m3[c].x)]
        t2d == gfpMul(e, m4[c].y)
    IN  [m4 EXCEPT ![c].y = gfpSub(t2d, tf)]

Add(m, c, a, b) ==
    IF IsInfinity(m[a]) THEN Set(m, c, b)
    ELSE IF IsInfinity(m[b]) THEN Set(m, c, a)
    ELSE
    LET z12    == gfpMul(m[a].z, m[a].z)
        z22    == gfpMul(m[b].z, m[b].z)
        u1     == gfpMul(m[a].x, z22)
        u2     == gfpMul(m[b].x, z12)
        ta     == gfpMul(m[b].z, z22)
        s1     == gfpMul(m[a].y, ta)
        tb     == gfpMul(m[a].z, z12)
        s2     == gfpMul(m[b].y, tb)
        h      == gfpSub(u2, u1)
        xEqual == (h = zero)
        tc     == gfpAdd(h, h)
        i      == gfpMul(tc, tc)
        j      == gfpMul(h, i)
        td     == gfpSub(s2, s1)
        yEqual == (td = one)
    IN  IF xEqual /\ yEqual THEN Double(m, c, a)
        ELSE
        LET r   == gfpAdd(td, td)
            v   == gfpMul(u1, i)
            t4a == gfpMul(r, r)
            te  == gfpAdd(v, v)
            t6a == gfpSub(t4a, j)
            m1  == [m EXCEPT ![c].x = gfpSub(t6a, te)]
            t7  == gfpSub(v, m1[c].x)
            t8  == gfpMul(s1, j)
            t9  == gfpAdd(t8, t8)
            t10 == gfpMul(r, t7)
            m2  == [m1 EXCEPT ![c].y = gfpSub(t10, t9)]
            t11 == gfpAdd(m2[a].z, m2[b].z)
            t12 == gfpMul(t11, t11)
            t13 == gfpSub(t12, z12)
            t14 == gfpSub(t13, z22)
        IN  [m2 EXCEPT ![c].z = gfpMul(t14, h)]

\* big.Int.BitLen and big.Int.Bit
RECURSIVE BitLen(_)
BitLen(k) == IF k = 0 THEN 0 ELSE 1 + BitLen(k \div 2)

RECURSIVE Pow2(_)
Pow2(n) == IF n = 0 THEN 1 ELSE 2 * Pow2(n - 1)

Bit(k, i) == (k \div Pow2(i)) % 2

\* the loop of Mul, from i down to 0, on the locals sum and t
RECURSIVE MulLoop(_, _, _, _)
MulLoop(m, a, scalar, i) ==
    IF i < 0 THEN m
    ELSE LET m1 == Double(m, "t", "sum")
             m2 == IF Bit(scalar, i) # 0
                   THEN Add(m1, "sum", "t", a)
                   ELSE Set(m1, "sum", "t")
         IN  MulLoop(m2, a, scalar, i - 1)

Mul(m, c, a, scalar) ==
    LET m0 == [m EXCEPT !["sum"] = ZeroPoint, !["t"] = ZeroPoint]
        m1 == SetInfinity(m0, "sum")
        m2 == MulLoop(m1, a, scalar, BitLen(scalar))
    IN  Set(m2, c, "sum")

---------------------------------------------------------------------------
(* The group G1 itself, for stating what the operations are to compute:    *)
(* affine points with coordinates out of Montgomery form, and the chord    *)
(* and tangent law.  Nothing below is taken from the code.                 *)

Inf == <<>>

\* the inverse of a # 0 in GF(p)
FInv(a) == CHOOSE b \in GF : (a * b) % P = 1

FSub(a, b) == (a + P - b) % P

\* the affine point that the Jacobian triple (x, y, z) of pt stands for
ToAffine(pt) ==
    IF pt.z = zero THEN Inf
    ELSE LET zi == FInv(montDecode(pt.z))
         IN  << (montDecode(pt.x) * zi * zi) % P,
                (montDecode(pt.y) * zi * zi * zi) % P >>

OnCurveAffine(A) ==
    A = Inf \/ (A[2] * A[2]) % P = (A[1] * A[1] * A[1] + 5) % P

GNeg(A) == IF A = Inf THEN Inf ELSE << A[1], (P - A[2]) % P >>

GAdd(A, B) ==
    IF A = Inf THEN B
    ELSE IF B = Inf THEN A
    ELSE IF A[1] = B[1] /\ (A[2] + B[2]) % P = 0 THEN Inf
    ELSE LET lam == IF A = B
                    THEN (3 * A[1] * A[1] * FInv((2 * A[2]) % P)) % P
                    ELSE (FSub(B[2], A[2]) * FInv(FSub(B[1], A[1]))) % P
             x3  == FSub(FSub((lam * lam) % P, A[1]), B[1])
             y3  == FSub((lam * FSub(A[1], x3)) % P, A[2])
         IN  << x3, y3 >>

\* [k]A: A added to itself k times
RECURSIVE GMul(_, _)
GMul(k, A) == IF k = 0 THEN Inf ELSE GAdd(GMul(k - 1, A), A)

---------------------------------------------------------------------------
(* The curve state machine: a caller holding the points of Objs and        *)
(* calling the exposed operations on them in any order, with any choice of *)
(* receiver and arguments (so receivers alias arguments).  last records    *)
(* the call just made and the memory it was made on.                       *)

\* the small scalars passed to Mul are 0 .. MaxScalar
MaxScalar == 4

\* the caller makes at most MaxCalls calls
MaxCalls == 2

\* the order of G1 (scaled down with the field): [Order]A is the identity
Order == 37

\* the scalars passed to Mul: the small ones, the order, and the first
\* scalar above the order whose loop adds a point to itself
Scalars == (0 .. MaxScalar) \cup {Order, Order + 2}

\* the trusted points the caller starts from are the first MaxTrusted
\* multiples of the generator
MaxTrusted == 3

\* a point as unmarshalled or constructed from trusted input: affine, on
\* the curve, z = t = one
TrustedPoints ==
    { pt \in [x : GF, y : GF, z : {one}, t : {one}] :
         /\ gfpMul(pt.y, pt.y) = polynomial(pt.x)
         /\ \E j \in 1 .. MaxTrusted :
               ToAffine(pt) = GMul(j, ToAffine(curveGen)) }

\* NewCurvePoint()
NewCurvePoint == SetInfinity(Ext(<<>>), "fresh")["fresh"]

NoCall == [op |-> "none", c |-> "p", a |-> "p", b |-> "p", k |-> 0,
           ret |-> TRUE, pre |-> <<>>, n |-> 0]

Called(op, c, a, b, k, ret) ==
    [op |-> op, c |-> c, a |-> a, b |-> b, k |-> k, ret |-> ret, pre |-> mem,
     n |-> last.n + 1]

CanCall == last.n < MaxCalls

EUIdle == <<>>

SMIdle == <<>>
\* the SM3 block routine is not running
S3Idle == <<>>

InitCurve ==
    /\ mem \in [Objs -> TrustedPoints \cup {NewCurvePoint}]
    /\ mem["p"] = curveGen
    /\ last = NoCall
    /\ eu = EUIdle
    /\ sm = SMIdle
    /\ s3 = S3Idle

CallSet(c, a) ==
    /\ CanCall
    /\ mem' = Restrict(Set(Ext(mem), c, a))
    /\ last' = Called("Set", c, a, a, 0, TRUE)
    /\ UNCHANGED <<eu, sm, s3>>

CallSetInfinity(c) ==
    /\ CanCall
    /\ mem' = Restrict(SetInfinity(Ext(mem), c))
    /\ last' = Called("SetInfinity", c, c, c, 0, TRUE)
    /\ UNCHANGED <<eu, sm, s3>>

CallNeg(c, a) ==
    /\ CanCall
    /\ mem' = Restrict(Neg(Ext(mem), c, a))
    /\ last' = Called("Neg", c, a, a, 0, TRUE)
    /\ UNCHANGED <<eu, sm, s3>>

CallAdd(c, a, b) ==
    /\ CanCall
    /\ mem' = Restrict(Add(Ext(mem), c, a, b))
    /\ last' = Called("Add", c, a, b, 0, TRUE)
    /\ UNCHANGED <<eu, sm, s3>>

CallDouble(c, a) ==
    /\ CanCall
    /\ mem' = Restrict(Double(Ext(mem), c, a))
    /\ last' = Called("Double", c, a, a, 0, TRUE)
    /\ UNCHANGED <<eu, sm, s3>>

CallMul(c, a, k) ==
    /\ CanCall
    /\ mem' = Restrict(Mul(Ext(mem), c, a, k))
    /\ last' = Called("Mul", c, a, a, k, TRUE)
    /\ UNCHANGED <<eu, sm, s3>>

CallMakeAffine(c) ==
    /\ CanCall
    /\ mem' = Restrict(MakeAffine(Ext(mem), c))
    /\ last' = Called("MakeAffine", c, c, c, 0, TRUE)
    /\ UNCHANGED <<eu, sm, s3>>

CallIsOnCurve(c) ==
    /\ CanCall
    /\ mem' = Restrict(IsOnCurveMem(Ext(mem), c))
    /\ last' = Called("IsOnCurve", c, c, c, 0, IsOnCurve(Ext(mem), c))
    /\ UNCHANGED <<eu, sm, s3>>

NextCurve ==
    \/ \E c, a \in Objs : CallSet(c, a)
    \/ \E c \in Objs : CallSetInfinity(c)
    \/ \E c, a \in Objs : CallNeg(c, a)
    \/ \E c, a, b \in Objs : CallAdd(c, a, b)
    \/ \E c, a \in Objs : CallDouble(c, a)
    \/ \E c, a \in Objs, k \in Scalars : CallMul(c, a, k)
    \/ \E c \in Objs : CallMakeAffine(c)
    \/ \E c \in Objs : CallIsOnCurve(c)

SpecCurve == InitCurve /\ [][NextCurve]_vars

---------------------------------------------------------------------------
(* What the claims say about the last call                                 *)

\* the arguments of the last call, as they were when it was made
PreA == last.pre[last.a]

PreB == last.pre[last.b]

Result == mem[last.c]

Finite(pt) == pt.z # zero

OnCurvePt(pt) == OnCurveAffine(ToAffine(pt))

XYZ(pt) == << pt.x, pt.y, pt.z >>

SamePoint(pt1, pt2) ==
    Finite(pt1) /\ Finite(pt2) /\ ToAffine(pt1) = ToAffine(pt2)

OppositePoints(pt1, pt2) ==
    Finite(pt1) /\ Finite(pt2) /\ ToAffine(pt1) = GNeg(ToAffine(pt2))

\* what the last call computes into a newly allocated receiver
FreshResult ==
    IF last.op = "Add"
    THEN Add(Ext(last.pre), "fresh", last.a, last.b)["fresh"]
    ELSE Double(Ext(last.pre), "fresh", last.a)["fresh"]

---------------------------------------------------------------------------
(* Claims about curvePoint, under SpecCurve                                *)

\* C1: Add(a, b) of two finite representations of the same affine point
\* gives what Double(a) gives, a representation of [2]a.
C1_AddOfEqualPointsDoubles ==
    (last.op = "Add" /\ SamePoint(PreA, PreB))
        => /\ XYZ(Result) = XYZ(Double(Ext(last.pre), "fresh", last.a)["fresh"])
           /\ ToAffine(Result) = GAdd(ToAffine(PreA), ToAffine(PreA))

\* C2: Mul(a, k) of an on-curve point a and a scalar k >= 0, larger than the
\* order or not, is a representation of [k]a.
C2_MulIsScalarMultiple ==
    (last.op = "Mul" /\ OnCurvePt(PreA))
        => ToAffine(Result) = GMul(last.k, ToAffine(PreA))

\* C3: for an on-curve point P, Mul(P, order) is the point at infinity, and
\* Mul(P, 1) equals P in all four coordinates once both are made affine.
C3_MulByOrderAndByOne ==
    (last.op = "Mul" /\ OnCurvePt(PreA) /\ Finite(PreA))
        => /\ last.k = Order => IsInfinity(Result)
           /\ last.k = 1 =>
                MakeAffine(Ext(mem), last.c)[last.c]
                    = MakeAffine(Ext(last.pre), last.a)[last.a]

\* C4: Add(a, b) of two finite points with b = -a is a point at infinity,
\* whatever the difference s2 - s1 is.
C4_AddOfOppositesIsInfinity ==
    (last.op = "Add" /\ OppositePoints(PreA, PreB)) => IsInfinity(Result)

\* C5: every point the caller holds satisfies IsOnCurve after any sequence of
\* calls on trusted points; in particular the result of Add, Double and Mul
\* on on-curve arguments does.
C5_OnCurvePreserved ==
    /\ \A o \in Objs : IsOnCurve(Ext(mem), o) /\ OnCurvePt(mem[o])
    /\ (last.op \in {"Add", "Double", "Mul"}
          /\ IsOnCurve(Ext(last.pre), last.a)
          /\ IsOnCurve(Ext(last.pre), last.b))
         => IsOnCurve(Ext(mem), last.c)

\* an Add of P and -P that took the doubling branch, with an on-curve result
C5_Witness ==
    /\ last.op = "Add"
    /\ OppositePoints(PreA, PreB)
    /\ Finite(Result)
    /\ IsOnCurve(Ext(mem), last.c)

\* C6: Add and Double into a receiver that is one of the arguments leave in
\* it the X, Y, Z they compute into a newly allocated receiver (and leave its
\* T as it was: neither writes T).
C6_AliasedReceiver ==
    (last.op \in {"Add", "Double"} /\ last.c \in {last.a, last.b})
        => /\ XYZ(Result) = XYZ(FreshResult)
           /\ \/ Result.t = last.pre[last.c].t
              \/ last.op = "Add" /\ (IsInfinity(PreA) \/ IsInfinity(PreB))

\* c.Add(a, c) on two finite points with different X: the general formula,
\* which writes c.x and c.y before it reads a.z and b.z
C6_Witness ==
    /\ last.op = "Add"
    /\ last.c = last.b
    /\ last.a # last.b
    /\ Finite(PreA) /\ Finite(PreB)
    /\ ToAffine(PreA)[1] # ToAffine(PreB)[1]
    /\ Finite(Result)

\* C14: MakeAffine leaves a point with Z = 1 unchanged in all its fields,
\* sets a point with Z = 0 to X = 0, Y = 1, Z = 0, and for any other Z
\* leaves (X/Z^2, Y/Z^3, 1); the affine point stood for is the same before
\* and after, a second MakeAffine changes nothing, and no other object is
\* written.
C14_MakeAffine ==
    last.op = "MakeAffine" =>
        /\ PreA.z = one => Result = PreA
        /\ PreA.z = zero =>
              Result.x = zero /\ Result.y = one /\ Result.z = zero
        /\ PreA.z \notin {zero, one} =>
              /\ Result.z = one
              /\ montDecode(Result.x)
                    = (montDecode(PreA.x) * FInv(montDecode(PreA.z))
                         * FInv(montDecode(PreA.z))) % P
              /\ montDecode(Result.y)
                    = (montDecode(PreA.y) * FInv(montDecode(PreA.z))
                         * FInv(montDecode(PreA.z))
                         * FInv(montDecode(PreA.z))) % P
        /\ ToAffine(Result) = ToAffine(PreA)
        /\ MakeAffine(Ext(mem), last.c)[last.c] = Result
        /\ \A o \in Objs \ {last.c} : mem[o] = last.pre[o]

\* MakeAffine of a finite point with Z # 1, which it had to rescale
C14_Witness ==
    /\ last.op = "MakeAffine"
    /\ PreA.z \notin {zero, one}
    /\ Result.z = one
    /\ Result.y # PreA.y
    /\ ToAffine(Result) = ToAffine(PreA)

\* the encoding of the point at infinity that SetInfinity writes
Canonical(pt) == pt.z = zero => (pt.x = zero /\ pt.y = one)

\* C15: after a call of SetInfinity, Add, Double, Neg or Mul on points that
\* were all in canonical form, every point with Z = 0 has X = 0 and Y = 1.
C15_InfinityCanonical ==
    (/\ last.op \in {"SetInfinity", "Add", "Double", "Neg", "Mul"}
     /\ \A o \in Objs : Canonical(last.pre[o]))
        => \A o \in Objs : Canonical(mem[o])

\* C16: Add(a, b) with a at infinity leaves in the receiver the four fields
\* b had, b at infinity or not; with a finite and b at infinity it leaves
\* the four fields a had; and no object but the receiver is written.
C16_AddWithInfinity ==
    last.op = "Add" =>
        /\ IsInfinity(PreA) => Result = PreB
        /\ (Finite(PreA) /\ IsInfinity(PreB)) => Result = PreA
        /\ (IsInfinity(PreA) \/ IsInfinity(PreB)) =>
              \A o \in Objs \ {last.c} : mem[o] = last.pre[o]

\* c.Add(a, b) with a at infinity, b finite and c another object than b
C16_Witness ==
    /\ last.op = "Add"
    /\ IsInfinity(PreA) /\ Finite(PreB)
    /\ last.c # last.b
    /\ last.pre[last.c] # PreB
    /\ Result = PreB


---------------------------------------------------------------------------
(* curvePointTable.Select: the receiver p is an object of the caller's     *)
(* memory, the table the 15 points its entries point to (p is not one of   *)
(* them).                                                                  *)

\* gfP.Select(a, b, cond): a if cond = 1, b otherwise
gfPSelect(a, b, cond) == IF cond = 1 THEN a ELSE b

\* subtle.ConstantTimeByteEq
ConstantTimeByteEq(x, y) == IF x = y THEN 1 ELSE 0

\* q.Select(p1, p2, cond), p1 being an entry of the table
curvePointSelect(m, q, p1, p2, cond) ==
    LET m1 == [m  EXCEPT ![q].x = gfPSelect(p1.x, m[p2].x, cond)]
        m2 == [m1 EXCEPT ![q].y = gfPSelect(p1.y, m1[p2].y, cond)]
        m3 == [m2 EXCEPT ![q].z = gfPSelect(p1.z, m2[p2].z, cond)]
    IN  [m3 EXCEPT ![q].t = gfPSelect(p1.t, m3[p2].t, cond)]

\* the length of a curvePointTable
TableSize == 15

\* the loop comparing with i instead of i + 1
RECURSIVE SelectLoopFromZero(_, _, _, _, _)
SelectLoopFromZero(m, table, p, n, i) ==
    IF i >= TableSize THEN m
    ELSE SelectLoopFromZero(
             curvePointSelect(m, p, table[i + 1], p,
                              ConstantTimeByteEq(i, n)),
             table, p, n, i + 1)

\* for i, f := range table, from index i on
RECURSIVE SelectLoop(_, _, _, _, _)
SelectLoop(m, table, p, n, i) ==
    IF i >= TableSize THEN m
    ELSE SelectLoop(
             curvePointSelect(m, p, table[i + 1], p,
                              ConstantTimeByteEq(i + 1, n)),
             table, p, n, i + 1)

\* table.Select(p, n): the memory it leaves, and whether it panicked
curvePointTableSelect(m, table, p, n) ==
    IF n >= 16 THEN [mem |-> m, panic |-> TRUE]
    ELSE [mem |-> SelectLoop(SetInfinity(m, p), table, p, n, 0),
          panic |-> FALSE]

\* the table of [1]curveGen .. [15]curveGen, as affine points
AffinePoint(A) == [x |-> newGFp(A[1]), y |-> newGFp(A[2]), z |-> one, t |-> one]
MultiplesTable ==
    SubSeq([i \in 1 .. TableSize |->
                AffinePoint(GMul(i, ToAffine(curveGen)))], 1, TableSize)

\* a table of points whose four fields all differ, within an entry and
\* from entry to entry
FieldsTable ==
    SubSeq([i \in 1 .. TableSize |->
                [x |-> i, y |-> i + 18, z |-> 2 * i, t |-> 2 * i + 1]],
           1, TableSize)

\* the multiples at the odd indices among other points
MixedTable ==
    SubSeq([i \in 1 .. TableSize |->
                IF i % 2 = 1 THEN MultiplesTable[i] ELSE FieldsTable[i]],
           1, TableSize)

Tables == {MultiplesTable, FieldsTable, MixedTable}

\* the values of n, a uint8: those in range, the first two out of range and
\* the largest
SelectIndices == (0 .. 17) \cup {255}

\* the caller makes at most MaxSelectCalls calls of Select
MaxSelectCalls == 1

InitSelect ==
    /\ mem \in [Objs -> TrustedPoints \cup {NewCurvePoint}]
    /\ last = NoCall
    /\ eu = EUIdle
    /\ sm = SMIdle
    /\ s3 = S3Idle

SelectReturns(p, table, n) ==
    /\ last.n < MaxSelectCalls
    /\ n < 16
    /\ \E res \in {curvePointTableSelect(Ext(mem), table, p, n)} :
          /\ ~res.panic
          /\ mem' = Restrict(res.mem)
    /\ last' = [op |-> "Select", c |-> p, a |-> p, b |-> p, k |-> n,
                ret |-> TRUE, pre |-> mem, n |-> last.n + 1, table |-> table]
    /\ UNCHANGED <<eu, sm, s3>>

SelectPanics(p, table, n) ==
    /\ last.n < MaxSelectCalls
    /\ n >= 16
    /\ \E res \in {curvePointTableSelect(Ext(mem), table, p, n)} :
          /\ res.panic
          /\ mem' = Restrict(res.mem)
    /\ last' = [op |-> "Select", c |-> p, a |-> p, b |-> p, k |-> n,
                ret |-> FALSE, pre |-> mem, n |-> last.n + 1, table |-> table]
    /\ UNCHANGED <<eu, sm, s3>>

NextSelect ==
    \/ \E p \in Objs, table \in Tables, n \in SelectIndices :
          SelectReturns(p, table, n)
    \/ \E p \in Objs, table \in Tables, n \in SelectIndices :
          SelectPanics(p, table, n)

SpecSelect == InitSelect /\ [][NextSelect]_vars

\* C13: table.Select(p, n) with n = 0 leaves p the point at infinity
\* (0, 1, 0, 0); with n in 1..15 it leaves p the four fields of table[n-1],
\* whatever the other entries and p held; with n >= 16 it panics and p is
\* as it was.  No other object of the caller is written.
C13_TableSelect ==
    last.op = "Select" =>
        /\ last.k = 0 =>
              /\ last.ret
              /\ Result = [x |-> zero, y |-> one, z |-> zero, t |-> zero]
        /\ last.k \in 1 .. 15 =>
              last.ret /\ Result = last.table[(last.k - 1) + 1]
        /\ last.k >= 16 => ~last.ret /\ mem = last.pre
        /\ \A o \in Objs \ {last.c} : mem[o] = last.pre[o]

\* Select of the last entry, [15]curveGen, into a p that held another point,
\* from the table whose other entries are not multiples
C13_Witness ==
    /\ last.op = "Select" /\ last.ret
    /\ last.k = 15
    /\ last.table = MixedTable
    /\ Result = AffinePoint(GMul(15, ToAffine(curveGen)))
    /\ Result # last.pre[last.c]

---------------------------------------------------------------------------
(* gfP12ExpU: the addition chain of the final exponentiation.  Its         *)
(* argument is a power g^k of some element g of GF(p^12); a register holds *)
(* zero (a freshly allocated gfP12b6), a power of g, recorded by its       *)
(* exponent, or a value that is no power of g.  Exponents are exact        *)
(* natural numbers of NLimbs limbs in base Base, least significant first.  *)

Base == 65536
NLimbs == 5

\* a number below Base * Base
Num(n) ==
    [i \in 1 .. NLimbs |->
        IF i = 1 THEN n % Base ELSE IF i = 2 THEN n \div Base ELSE 0]

RECURSIVE Carry(_, _, _)
Carry(a, b, i) ==
    IF i = 0 THEN 0 ELSE (a[i] + b[i] + Carry(a, b, i - 1)) \div Base

BigAdd(a, b) ==
    [i \in 1 .. NLimbs |-> (a[i] + b[i] + Carry(a, b, i - 1)) % Base]

RECURSIVE Times(_, _)
Times(a, k) == IF k = 0 THEN Num(0) ELSE BigAdd(a, Times(a, k - 1))

\* new(gfP12b6): all coefficients zero
ZeroVal == [kind |-> "zero", e |-> Num(0)]
\* what a routine leaves behind when it overwrote an operand it was still
\* reading
JunkVal == [kind |-> "junk", e |-> Num(0)]
Pow(e) == [kind |-> "pow", e |-> e]

\* the product of two values of GF(p^12)
Product(u, v) ==
    IF u.kind = "junk" \/ v.kind = "junk" THEN JunkVal
    ELSE IF u.kind = "zero" \/ v.kind = "zero" THEN ZeroVal
    ELSE Pow(BigAdd(u.e, v.e))

\* the objects of one call; z is another name for the receiver e, and with
\* alias the receiver is the argument (e.gfP12ExpU(e))
ExpObjs == {"e", "x", "t0", "t1", "t2", "t3"}
Ptr(alias, r) ==
    IF r \in {"z", "e"} THEN (IF alias THEN "x" ELSE "e") ELSE r

\* e.gfP12Mul(a, b) and e.gfP12SpecialSquare(a): the result is built in a temporary
\* and copied to e, so e may be an operand
gfP12Mul(m, alias, d, a, b) ==
    [m EXCEPT ![Ptr(alias, d)] = Product(m[Ptr(alias, a)], m[Ptr(alias, b)])]
gfP12SpecialSquare(m, alias, d, a) ==
    [m EXCEPT ![Ptr(alias, d)] = Product(m[Ptr(alias, a)], m[Ptr(alias, a)])]

\* e.gfP12MulNC(a, b) and e.gfP12SpecialSquareNC(a) write e without a temporary: when
\* e is an operand the result is the product or not, depending on the order
\* of the coefficient reads and writes
gfP12MulNC(m, alias, d, a, b) ==
    LET loc == Ptr(alias, d)
        good == gfP12Mul(m, alias, d, a, b)
    IN  IF loc \in {Ptr(alias, a), Ptr(alias, b)}
        THEN {good, [m EXCEPT ![loc] = JunkVal]}
        ELSE {good}
gfP12SpecialSquareNC(m, alias, d, a) ==
    LET loc == Ptr(alias, d)
        good == gfP12SpecialSquare(m, alias, d, a)
    IN  IF loc = Ptr(alias, a)
        THEN {good, [m EXCEPT ![loc] = JunkVal]}
        ELSE {good}

Ins(line, op, d, a, b, n) ==
    [line |-> line, op |-> op, d |-> d, a |-> a, b |-> b, n |-> n]

\* lines 339 to 344 of gfP12ExpU
ProgHead ==
    << Ins(339, "SpecialSquareNC", "t2", "x", "x", 1),
       Ins(340, "SpecialSquareNC", "t1", "t2", "t2", 1),
       Ins(341, "MulNC", "z", "x", "t1", 0),
       Ins(342, "MulNC", "t0", "t1", "z", 0),
       Ins(343, "Mul", "t2", "t2", "t0", 0),
       Ins(344, "MulNC", "t3", "x", "t2", 0) >>

\* lines 345 to 355
ProgMiddle ==
    << Ins(345, "SpecialSquares", "t3", "t3", "t3", 40),
       Ins(346, "Mul", "t3", "t2", "t3", 0),
       Ins(347, "SpecialSquares", "t3", "t3", "t3", 7),
       Ins(348, "Mul", "t2", "t2", "t3", 0),
       Ins(349, "Mul", "t1", "t1", "t2", 0),
       Ins(350, "SpecialSquares", "t1", "t1", "t1", 4),
       Ins(351, "Mul", "t0", "t0", "t1", 0),
       Ins(352, "SpecialSquare", "t0", "t0", "t0", 1),
       Ins(353, "Mul", "t0", "x", "t0", 0),
       Ins(354, "SpecialSquares", "t0", "t0", "t0", 6),
       Ins(355, "Mul", "z", "z", "t0", 0) >>

\* line 356
ProgLast == << Ins(356, "SpecialSquare", "z", "z", "z", 1) >>

\* the chain without its final squaring
ProgWithoutLastSquare == ProgHead \o ProgMiddle

\* the body of gfP12ExpU
Prog == ProgHead \o ProgMiddle \o ProgLast

\* the arguments x = g^k the chain is run on
MaxBase == 2

\* the call e.gfP12ExpU(x) with x = g^k about to execute its first line
ExpUEntry(k, alias) ==
    [pc |-> 1, it |-> 0, done |-> FALSE, alias |-> alias, k |-> k,
     m |-> [o \in ExpObjs |-> IF o = "x" THEN Pow(Num(k)) ELSE ZeroVal],
     nSq |-> 0, nMul |-> 0]

InitExpU ==
    /\ eu \in {ExpUEntry(k, alias) : k \in 1 .. MaxBase, alias \in BOOLEAN}
    /\ mem = [o \in Objs |-> NewCurvePoint]
    /\ last = NoCall
    /\ sm = SMIdle
    /\ s3 = S3Idle

AtOp(op) == ~eu.done /\ eu.pc <= Len(Prog) /\ Prog[eu.pc].op = op

ExpUSpecialSquareNC ==
    /\ AtOp("SpecialSquareNC")
    /\ \E m2 \in gfP12SpecialSquareNC(eu.m, eu.alias, Prog[eu.pc].d, Prog[eu.pc].a) :
          eu' = [eu EXCEPT !.m = m2, !.pc = @ + 1, !.nSq = @ + 1]
    /\ UNCHANGED <<mem, last, sm, s3>>

ExpUMulNC ==
    /\ AtOp("MulNC")
    /\ \E m2 \in gfP12MulNC(eu.m, eu.alias, Prog[eu.pc].d, Prog[eu.pc].a,
                       Prog[eu.pc].b) :
          eu' = [eu EXCEPT !.m = m2, !.pc = @ + 1, !.nMul = @ + 1]
    /\ UNCHANGED <<mem, last, sm, s3>>

ExpUMul ==
    /\ AtOp("Mul")
    /\ eu' = [eu EXCEPT !.m = gfP12Mul(eu.m, eu.alias, Prog[eu.pc].d,
                                  Prog[eu.pc].a, Prog[eu.pc].b),
                        !.pc = @ + 1, !.nMul = @ + 1]
    /\ UNCHANGED <<mem, last, sm, s3>>

ExpUSpecialSquare ==
    /\ AtOp("SpecialSquare")
    /\ eu' = [eu EXCEPT !.m = gfP12SpecialSquare(eu.m, eu.alias, Prog[eu.pc].d,
                                            Prog[eu.pc].a),
                        !.pc = @ + 1, !.nSq = @ + 1]
    /\ UNCHANGED <<mem, last, sm, s3>>

\* one squaring of e.SpecialSquares(a, n): the first squares a into e, the
\* others square e in place
ExpUSpecialSquares ==
    /\ AtOp("SpecialSquares")
    /\ LET i == Prog[eu.pc]
           from == IF eu.it = 0 THEN i.a ELSE i.d
           last1 == eu.it + 1 = i.n
       IN  eu' = [eu EXCEPT !.m = gfP12SpecialSquare(eu.m, eu.alias, i.d, from),
                            !.it = IF last1 THEN 0 ELSE @ + 1,
                            !.pc = IF last1 THEN @ + 1 ELSE @,
                            !.nSq = @ + 1]
    /\ UNCHANGED <<mem, last, sm, s3>>

\* return e
ExpUReturn ==
    /\ ~eu.done /\ eu.pc = Len(Prog) + 1
    /\ eu' = [eu EXCEPT !.done = TRUE]
    /\ UNCHANGED <<mem, last, sm, s3>>

NextExpU ==
    \/ ExpUSpecialSquareNC
    \/ ExpUMulNC
    \/ ExpUMul
    \/ ExpUSpecialSquare
    \/ ExpUSpecialSquares
    \/ ExpUReturn

SpecExpU == InitExpU /\ [][NextExpU]_vars

---------------------------------------------------------------------------
(* What the claims say about gfP12ExpU                                     *)

\* 0x600000000058F98A
ChainExponent == << 63882, 88, 0, 24576, 0 >>

\* the value the receiver holds
ExpUResult == eu.m[Ptr(eu.alias, "e")]

\* the register r holds x^n
Holds(r, n) == eu.m[Ptr(eu.alias, r)] = Pow(Times(Num(n), eu.k))

\* the line the call is about to execute
AtLine(l) ==
    ~eu.done /\ eu.pc <= Len(Prog) /\ Prog[eu.pc].line = l /\ eu.it = 0

\* C7: a call whose receiver is its argument returns what the call with a
\* separate receiver returns for that argument, x raised to the exponent of
\* the chain.
C7_AliasedExpU ==
    (eu # EUIdle /\ eu.done /\ eu.alias)
        => ExpUResult = Pow(Times(ChainExponent, eu.k))

\* C8: with receiver and argument distinct, a call makes 61 squarings and
\* 10 multiplications, its registers pass through _10, _100, _101, _1001,
\* _1011 and _1100 of the documented chain, and it returns x raised to
\* 0x600000000058F98A.
C8_ChainRealised ==
    (eu # EUIdle /\ ~eu.alias) =>
        /\ AtLine(340) => Holds("t2", 2)
        /\ AtLine(341) => Holds("t1", 4)
        /\ AtLine(342) => Holds("z", 5)
        /\ AtLine(343) => Holds("t0", 9)
        /\ AtLine(344) => Holds("t2", 11)
        /\ AtLine(345) => Holds("t3", 12)
        /\ eu.done => /\ eu.nSq = 61
                      /\ eu.nMul = 10
                      /\ ExpUResult = Pow(Times(ChainExponent, eu.k))

C8_Witness ==
    /\ eu # EUIdle /\ eu.done /\ ~eu.alias /\ eu.k = MaxBase
    /\ eu.nSq = 61 /\ eu.nMul = 10
    /\ ExpUResult = Pow(Times(ChainExponent, MaxBase))

---------------------------------------------------------------------------
(* sm4: the amd64 assembly routines.  An XMM register is a tuple of 16     *)
(* bytes, byte 1 the least significant; a YMM register is a pair of XMM    *)
(* halves <<low, high>>; a 32-bit word in memory or in a lane is its 4     *)
(* bytes in little-endian order.  Instructions are operators with the      *)
(* operand order of the source (sources first, destination last) giving    *)
(* the new value of the destination, and the macros of the source are      *)
(* operators composed of them, instruction by instruction.                 *)

flip_mask == << 3, 2, 1, 0, 7, 6, 5, 4, 11, 10, 9, 8, 15, 14, 13, 12 >>

flip_mask2 == << 15, 14, 13, 12, 11, 10, 9, 8, 7, 6, 5, 4, 3, 2, 1, 0 >>

nibble_mask == << 15, 15, 15, 15, 15, 15, 15, 15, 15, 15, 15, 15, 15, 15, 15, 15 >>

inverse_shift_rows == << 0, 13, 10, 7, 4, 1, 14, 11, 8, 5, 2, 15, 12, 9, 6, 3 >>

m1_low == << 1, 7, 114, 116, 228, 226, 151, 145, 87, 81, 36, 34, 178, 180, 193, 199 >>

m1_high == << 0, 162, 73, 235, 9, 171, 64, 226, 18, 176, 91, 249, 27, 185, 82, 240 >>

m2_low == << 52, 8, 157, 161, 206, 242, 103, 91, 130, 190, 43, 23, 120, 68, 209, 237 >>

m2_high == << 0, 220, 175, 115, 221, 1, 114, 174, 191, 99, 16, 204, 98, 190, 205, 17 >>

r08_mask == << 3, 0, 1, 2, 7, 4, 5, 6, 11, 8, 9, 10, 15, 12, 13, 14 >>

r16_mask == << 2, 3, 0, 1, 6, 7, 4, 5, 10, 11, 8, 9, 14, 15, 12, 13 >>

r24_mask == << 1, 2, 3, 0, 5, 6, 7, 4, 9, 10, 11, 8, 13, 14, 15, 12 >>

fk_mask == << 198, 186, 177, 163, 80, 51, 170, 86, 151, 145, 125, 103, 220, 34, 112, 178 >>

XorTab ==
    << << 0, 1, 2, 3, 4, 5, 6, 7, 8, 9, 10, 11, 12, 13, 14, 15 >>,
       << 1, 0, 3, 2, 5, 4, 7, 6, 9, 8, 11, 10, 13, 12, 15, 14 >>,
       << 2, 3, 0, 1, 6, 7, 4, 5, 10, 11, 8, 9, 14, 15, 12, 13 >>,
       << 3, 2, 1, 0, 7, 6, 5, 4, 11, 10, 9, 8, 15, 14, 13, 12 >>,
       << 4, 5, 6, 7, 0, 1, 2, 3, 12, 13, 14, 15, 8, 9, 10, 11 >>,
       << 5, 4, 7, 6, 1, 0, 3, 2, 13, 12, 15, 14, 9, 8, 11, 10 >>,
       << 6, 7, 4, 5, 2, 3, 0, 1, 14, 15, 12, 13, 10, 11, 8, 9 >>,
       << 7, 6, 5, 4, 3, 2, 1, 0, 15, 14, 13, 12, 11, 10, 9, 8 >>,
       << 8, 9, 10, 11, 12, 13, 14, 15, 0, 1, 2, 3, 4, 5, 6, 7 >>,
       << 9, 8, 11, 10, 13, 12, 15, 14, 1, 0, 3, 2, 5, 4, 7, 6 >>,
       << 10, 11, 8, 9, 14, 15, 12, 13, 2, 3, 0, 1, 6, 7, 4, 5 >>,
       << 11, 10, 9, 8, 15, 14, 13, 12, 3, 2, 1, 0, 7, 6, 5, 4 >>,
       << 12, 13, 14, 15, 8, 9, 10, 11, 4, 5, 6, 7, 0, 1, 2, 3 >>,
       << 13, 12, 15, 14, 9, 8, 11, 10, 5, 4, 7, 6, 1, 0, 3, 2 >>,
       << 14, 15, 12, 13, 10, 11, 8, 9, 6, 7, 4, 5, 2, 3, 0, 1 >>,
       << 15, 14, 13, 12, 11, 10, 9, 8, 7, 6, 5, 4, 3, 2, 1, 0 >> >>

AndTab ==
    << << 0, 0, 0, 0, 0, 0, 0, 0, 0, 0, 0, 0, 0, 0, 0, 0 >>,
       << 0, 1, 0, 1, 0, 1, 0, 1, 0, 1, 0, 1, 0, 1, 0, 1 >>,
       << 0, 0, 2, 2, 0, 0, 2, 2, 0, 0, 2, 2, 0, 0, 2, 2 >>,
       << 0, 1, 2, 3, 0, 1, 2, 3, 0, 1, 2, 3, 0, 1, 2, 3 >>,
       << 0, 0, 0, 0, 4, 4, 4, 4, 0, 0, 0, 0, 4, 4, 4, 4 >>,
       << 0, 1, 0, 1, 4, 5, 4, 5, 0, 1, 0, 1, 4, 5, 4, 5 >>,
       << 0, 0, 2, 2, 4, 4, 6, 6, 0, 0, 2, 2, 4, 4, 6, 6 >>,
       << 0, 1, 2, 3, 4, 5, 6, 7, 0, 1, 2, 3, 4, 5, 6, 7 >>,
       << 0, 0, 0, 0, 0, 0, 0, 0, 8, 8, 8, 8, 8, 8, 8, 8 >>,
       << 0, 1, 0, 1, 0, 1, 0, 1, 8, 9, 8, 9, 8, 9, 8, 9 >>,
       << 0, 0, 2, 2, 0, 0, 2, 2, 8, 8, 10, 10, 8, 8, 10, 10 >>,
       << 0, 1, 2, 3, 0, 1, 2, 3, 8, 9, 10, 11, 8, 9, 10, 11 >>,
       << 0, 0, 0, 0, 4, 4, 4, 4, 8, 8, 8, 8, 12, 12, 12, 12 >>,
       << 0, 1, 0, 1, 4, 5, 4, 5, 8, 9, 8, 9, 12, 13, 12, 13 >>,
       << 0, 0, 2, 2, 4, 4, 6, 6, 8, 8, 10, 10, 12, 12, 14, 14 >>,
       << 0, 1, 2, 3, 4, 5, 6, 7, 8, 9, 10, 11, 12, 13, 14, 15 >> >>

AESSBox ==
    << 99, 124, 119, 123, 242, 107, 111, 197, 48, 1, 103, 43, 254, 215, 171, 118,
       202, 130, 201, 125, 250, 89, 71, 240, 173, 212, 162, 175, 156, 164, 114, 192,
       183, 253, 147, 38, 54, 63, 247, 204, 52, 165, 229, 241, 113, 216, 49, 21,
       4, 199, 35, 195, 24, 150, 5, 154, 7, 18, 128, 226, 235, 39, 178, 117,
       9, 131, 44, 26, 27, 110, 90, 160, 82, 59, 214, 179, 41, 227, 47, 132,
       83, 209, 0, 237, 32, 252, 177, 91, 106, 203, 190, 57, 74, 76, 88, 207,
       208, 239, 170, 251, 67, 77, 51, 133, 69, 249, 2, 127, 80, 60, 159, 168,
       81, 163, 64, 143, 146, 157, 56, 245, 188, 182, 218, 33, 16, 255, 243, 210,
       205, 12, 19, 236, 95, 151, 68, 23, 196, 167, 126, 61, 100, 93, 25, 115,
       96, 129, 79, 220, 34, 42, 144, 136, 70, 238, 184, 20, 222, 94, 11, 219,
       224, 50, 58, 10, 73, 6, 36, 92, 194, 211, 172, 98, 145, 149, 228, 121,
       231, 200, 55, 109, 141, 213, 78, 169, 108, 86, 244, 234, 101, 122, 174, 8,
       186, 120, 37, 46, 28, 166, 180, 198, 232, 221, 116, 31, 75, 189, 139, 138,
       112, 62, 181, 102, 72, 3, 246, 14, 97, 53, 87, 185, 134, 193, 29, 158,
       225, 248, 152, 17, 105, 217, 142, 148, 155, 30, 135, 233, 206, 85, 40, 223,
       140, 161, 137, 13, 191, 230, 66, 104, 65, 153, 45, 15, 176, 84, 187, 22 >>

bxor(a, b) ==
    XorTab[(a \div 16) + 1][(b \div 16) + 1] * 16
        + XorTab[(a % 16) + 1][(b % 16) + 1]
band(a, b) ==
    AndTab[(a \div 16) + 1][(b \div 16) + 1] * 16
        + AndTab[(a % 16) + 1][(b % 16) + 1]

\* the register whose byte i is f[i]
Bytes16(f) == SubSeq(f, 1, 16)

Fill16(byte) ==
    << byte, byte, byte, byte, byte, byte, byte, byte,
       byte, byte, byte, byte, byte, byte, byte, byte >>
Lane(r, k) == SubSeq(r, 4 * k + 1, 4 * k + 4)

PXOR(s, d) == Bytes16([i \in 1 .. 16 |-> bxor(s[i], d[i])])
PAND(s, d) == Bytes16([i \in 1 .. 16 |-> band(s[i], d[i])])
POR(s, d) == Bytes16([i \in 1 .. 16 |-> s[i] + d[i] - band(s[i], d[i])])
PANDN(s, d) == Bytes16([i \in 1 .. 16 |-> band(255 - d[i], s[i])])
PSHUFB(s, d) ==
    Bytes16([i \in 1 .. 16 |->
        IF s[i] >= 128 THEN 0 ELSE d[(s[i] % 16) + 1]])

\* byte i of d after its lanes of w bytes are shifted right, left by n bits
ShiftR(d, w, n, i) ==
    LET j == (i - 1) % w
        lo == IF j + (n \div 8) < w THEN d[i + (n \div 8)] ELSE 0
        hi == IF j + (n \div 8) + 1 < w THEN d[i + (n \div 8) + 1] ELSE 0
    IN  (lo \div (2 ^ (n % 8))) + ((hi * (2 ^ (8 - (n % 8)))) % 256)
ShiftL(d, w, n, i) ==
    LET j == (i - 1) % w
        lo == IF j - (n \div 8) >= 0 THEN d[i - (n \div 8)] ELSE 0
        pv == IF j - (n \div 8) - 1 >= 0 THEN d[i - (n \div 8) - 1] ELSE 0
    IN  ((lo * (2 ^ (n % 8))) % 256) + (pv \div (2 ^ (8 - (n % 8))))

PSRLQ(n, d) == Bytes16([i \in 1 .. 16 |-> ShiftR(d, 8, n, i)])
PSLLL(n, d) == Bytes16([i \in 1 .. 16 |-> ShiftL(d, 4, n, i)])
PSRLL(n, d) == Bytes16([i \in 1 .. 16 |-> ShiftR(d, 4, n, i)])
PSHUFD(imm, s) ==
    Lane(s, imm % 4) \o Lane(s, (imm \div 4) % 4)
        \o Lane(s, (imm \div 16) % 4) \o Lane(s, (imm \div 64) % 4)
PINSRD(k, w, d) == SubSeq(d, 1, 4 * k) \o w \o SubSeq(d, 4 * k + 5, 16)
PEXTRD(k, s) == Lane(s, k)

\* AESENCLAST: ShiftRows, SubBytes, then xor with the round key
ShiftRows == << 0, 5, 10, 15, 4, 9, 14, 3, 8, 13, 2, 7, 12, 1, 6, 11 >>
AESENCLAST(key, d) ==
    Bytes16([i \in 1 .. 16 |->
        bxor(AESSBox[d[ShiftRows[i] + 1] + 1], key[i])])

\* the nibbles of x looked up in two tables: low is x's low nibbles as the
\* macro isolates them, and the high nibbles are shifted down
NibbleTables(low, x, m_low, m_high) ==
    PXOR(PSHUFB(low, m_low), PSHUFB(PAND(nibble_mask, PSRLQ(4, x)), m_high))

SM4_SBOX(x) ==
    LET A1(x1) == NibbleTables(PAND(nibble_mask, x1), x1, m1_low, m1_high)
        Inverse(x2) ==
            AESENCLAST(nibble_mask, PSHUFB(inverse_shift_rows, x2))
        A2(x3) == NibbleTables(PANDN(nibble_mask, x3), x3, m2_low, m2_high)
    IN  A2(Inverse(A1(x)))

SM4_TAO_L1(x0) ==
    LET Rotl2(y) == POR(PSLLL(2, y), PSRLL(30, y))
        L(x) ==
            PXOR(PSHUFB(r24_mask, x),
                 PXOR(Rotl2(PXOR(PSHUFB(r16_mask, x),
                                 PXOR(x, PSHUFB(r08_mask, x)))), x))
    IN  L(SM4_SBOX(x0))

SM4_TAO_L2(x0) ==
    LET Rotl(x, XTMP6) ==
            PXOR(POR(PSLLL(10, XTMP6), PSRLL(9, x)), POR(XTMP6, PSRLL(19, x)))
        L(x) == PXOR(Rotl(x, PSLLL(13, x)), x)
    IN  L(SM4_SBOX(x0))

\* the macros of a round give <<x, t0>>, the registers they write
XorInto(x, t0) == << x, PXOR(x, t0) >>
SM4_ROUND(rk, x, t0, t1, t2, t3) ==
    XorInto(SM4_TAO_L1(PXOR(t3, PXOR(t2, PXOR(t1,
                PSHUFD(0, PINSRD(0, rk, x)))))), t0)
SM4_SINGLE_ROUND(rk, x, t0, t1, t2, t3) ==
    XorInto(SM4_TAO_L1(PXOR(t3, PXOR(t2, PXOR(t1, PINSRD(0, rk, x))))), t0)
SM4_EXPANDKEY_ROUND(ck, x, t0, t1, t2, t3) ==
    XorInto(SM4_TAO_L2(PXOR(t3, PXOR(t2, PXOR(t1, PINSRD(0, ck, x))))), t0)

\* memory: byte arrays are tuples of bytes, round-key arrays tuples of words
Load(buf, off, len) == SubSeq(buf, off + 1, off + len)
Store(buf, off, bytes) ==
    SubSeq(buf, 1, off) \o bytes \o SubSeq(buf, off + Len(bytes) + 1, Len(buf))
\* the word at byte offset off of a round-key array
WordAt(xk, off) == xk[(off \div 4) + 1]

\* the bytes SM4_EXPANDKEY_ROUND(index, ...) writes its key to: offset
\* index*4 + CX of enc and offset 12 - index*4 + SI of dec
EncOffsetReversed(index, CX) == (12 - index * 4) + CX
EncOffset(index, CX) == index * 4 + CX
DecOffsetSameOrder(index, SI) == index * 4 + (112 - SI)
DecOffset(index, SI) == (12 - index * 4) + SI
\* the byte offsets the MOVLs of one pass of the loop store to, in order
EncStores(CX) ==
    << EncOffset(0, CX), EncOffset(1, CX), EncOffset(2, CX), EncOffset(3, CX) >>
DecStores(SI) ==
    << DecOffset(0, SI), DecOffset(1, SI), DecOffset(2, SI), DecOffset(3, SI) >>

\* the registers after a round macro that gave p = <<x, t>>
RoundWrites(r, t, p) == [r EXCEPT !.x = p[1], ![t] = p[2]]
\* the value a one-element set holds
The(S) == CHOOSE v \in S : TRUE

\* expandKeyAsm up to its loop: the registers t0..t3
expandKeyEntry(key, x) ==
    LET Lanes(t0) ==
            [x |-> x, t0 |-> t0, t1 |-> PSHUFD(1, t0), t2 |-> PSHUFD(2, t0),
             t3 |-> PSHUFD(3, t0)]
    IN  Lanes(PXOR(fk_mask, PSHUFB(flip_mask, key)))

\* one pass of the loop of expandKeyAsm: the four rounds, each writing lane
\* 0 of the register it updated to enc and to dec
expandKeyLoop(ck, CX, SI, r0, enc, dec) ==
    LET Round0(r) ==
            RoundWrites(r, "t0",
                SM4_EXPANDKEY_ROUND(WordAt(ck, CX), r.x, r.t0, r.t1,
                                    r.t2, r.t3))
        Round1(r) ==
            RoundWrites(r, "t1",
                SM4_EXPANDKEY_ROUND(WordAt(ck, CX + 4), r.x, r.t1, r.t2,
                                    r.t3, r.t0))
        Round2(r) ==
            RoundWrites(r, "t2",
                SM4_EXPANDKEY_ROUND(WordAt(ck, CX + 8), r.x, r.t2, r.t3,
                                    r.t0, r.t1))
        Round3(r) ==
            RoundWrites(r, "t3",
                SM4_EXPANDKEY_ROUND(WordAt(ck, CX + 12), r.x, r.t3, r.t0,
                                    r.t1, r.t2))
        Keys(r) ==
            [X |-> r,
             enc |-> [enc EXCEPT
                        ![(EncOffset(0, CX) \div 4) + 1] = PEXTRD(0, r.t0),
                        ![(EncOffset(1, CX) \div 4) + 1] = PEXTRD(0, r.t1),
                        ![(EncOffset(2, CX) \div 4) + 1] = PEXTRD(0, r.t2),
                        ![(EncOffset(3, CX) \div 4) + 1] = PEXTRD(0, r.t3)],
             dec |-> [dec EXCEPT
                        ![(DecOffset(0, SI) \div 4) + 1] = PEXTRD(0, r.t0),
                        ![(DecOffset(1, SI) \div 4) + 1] = PEXTRD(0, r.t1),
                        ![(DecOffset(2, SI) \div 4) + 1] = PEXTRD(0, r.t2),
                        ![(DecOffset(3, SI) \div 4) + 1] = PEXTRD(0, r.t3)]]
    IN  The({ Keys(r4) : r4 \in
              { Round3(r3) : r3 \in
                { Round2(r2) : r2 \in { Round1(r1) : r1 \in { Round0(r0) } } } } })

\* encryptBlockAsm up to its loop: lane 0 of t0..t3 is loaded, the other
\* lanes and x keep what the registers held
encryptBlockEntry(src, r) ==
    [x |-> r.x,
     t0 |-> PSHUFB(flip_mask, PINSRD(0, Load(src, 0, 4), r.t0)),
     t1 |-> PSHUFB(flip_mask, PINSRD(0, Load(src, 4, 4), r.t1)),
     t2 |-> PSHUFB(flip_mask, PINSRD(0, Load(src, 8, 4), r.t2)),
     t3 |-> PSHUFB(flip_mask, PINSRD(0, Load(src, 12, 4), r.t3))]

\* one pass of the loop of encryptBlockAsm
encryptBlockLoop(xk, CX, r0) ==
    LET Round0(r) ==
            RoundWrites(r, "t0",
                SM4_SINGLE_ROUND(WordAt(xk, CX), r.x, r.t0, r.t1,
                                 r.t2, r.t3))
        Round1(r) ==
            RoundWrites(r, "t1",
                SM4_SINGLE_ROUND(WordAt(xk, CX + 4), r.x, r.t1, r.t2,
                                 r.t3, r.t0))
        Round2(r) ==
            RoundWrites(r, "t2",
                SM4_SINGLE_ROUND(WordAt(xk, CX + 8), r.x, r.t2, r.t3,
                                 r.t0, r.t1))
        Round3(r) ==
            RoundWrites(r, "t3",
                SM4_SINGLE_ROUND(WordAt(xk, CX + 12), r.x, r.t3, r.t0,
                                 r.t1, r.t2))
    IN  The({ Round3(r3) : r3 \in
              { Round2(r2) : r2 \in { Round1(r1) : r1 \in { Round0(r0) } } } })

\* encryptBlockAsm after its loop: dst as it is left
encryptBlockExit(dst, r) ==
    LET t3 == PSHUFB(flip_mask, r.t3)
        t2 == PSHUFB(flip_mask, r.t2)
        t1 == PSHUFB(flip_mask, r.t1)
        t0 == PSHUFB(flip_mask, r.t0)
    IN  Store(Store(Store(Store(dst, 0, t3), 4, PEXTRD(0, t2)),
                    8, PEXTRD(0, t1)), 12, PEXTRD(0, t0))

\* encryptBlocksAsm from non_avx2_start to its loop: four blocks, one per
\* lane
encryptBlocksEntry(src, r) ==
    LET Col(off, t) ==
            PSHUFB(flip_mask,
                PINSRD(3, Load(src, off + 48, 4),
                    PINSRD(2, Load(src, off + 32, 4),
                        PINSRD(1, Load(src, off + 16, 4),
                            PINSRD(0, Load(src, off, 4), t)))))
    IN  [x |-> r.x, t0 |-> Col(0, r.t0), t1 |-> Col(4, r.t1),
         t2 |-> Col(8, r.t2), t3 |-> Col(12, r.t3)]

\* one pass of the loop of encryptBlocksAsm
encryptBlocksLoop(xk, CX, r0) ==
    LET Round0(r) ==
            RoundWrites(r, "t0",
                SM4_ROUND(WordAt(xk, CX), r.x, r.t0, r.t1,
                          r.t2, r.t3))
        Round1(r) ==
            RoundWrites(r, "t1",
                SM4_ROUND(WordAt(xk, CX + 4), r.x, r.t1, r.t2,
                          r.t3, r.t0))
        Round2(r) ==
            RoundWrites(r, "t2",
                SM4_ROUND(WordAt(xk, CX + 8), r.x, r.t2, r.t3,
                          r.t0, r.t1))
        Round3(r) ==
            RoundWrites(r, "t3",
                SM4_ROUND(WordAt(xk, CX + 12), r.x, r.t3, r.t0,
                          r.t1, r.t2))
    IN  The({ Round3(r3) : r3 \in
              { Round2(r2) : r2 \in { Round1(r1) : r1 \in { Round0(r0) } } } })

\* MOVL a(BX), Ra; MOVL b(BX), Rb; MOVL Rb, a(BX); MOVL Ra, b(BX)
SwapWords(buf, a, b) ==
    Store(Store(buf, a, Load(buf, b, 4)), b, Load(buf, a, 4))

\* encryptBlocksAsm after its loop, to done_sm4: dst as it is left
encryptBlocksExit(dst, r) ==
    LET t3 == PSHUFB(flip_mask, r.t3)
        t2 == PSHUFB(flip_mask, r.t2)
        t1 == PSHUFB(flip_mask, r.t1)
        t0 == PSHUFB(flip_mask, r.t0)
        rows == Store(Store(Store(Store(dst, 0, t3), 16, t2), 32, t1), 48, t0)
        s1 == SwapWords(SwapWords(SwapWords(rows, 4, 16), 8, 32), 12, 48)
        s2 == SwapWords(SwapWords(s1, 24, 36), 28, 52)
    IN  SwapWords(s2, 44, 56)

\* the AVX2 instructions, on both halves of a YMM register
VBROADCASTI128(m) == << m, m >>
VPBROADCASTD(w) == << w \o w \o w \o w, w \o w \o w \o w >>
VMOVDQU(buf, off) == << Load(buf, off, 16), Load(buf, off + 16, 16) >>
VPXOR(s2, s1) == << PXOR(s2[1], s1[1]), PXOR(s2[2], s1[2]) >>
VPAND(s2, s1) == << PAND(s2[1], s1[1]), PAND(s2[2], s1[2]) >>
VPANDN(s2, s1) == << PANDN(s2[1], s1[1]), PANDN(s2[2], s1[2]) >>
VPSHUFB(s2, s1) == << PSHUFB(s2[1], s1[1]), PSHUFB(s2[2], s1[2]) >>
VPSRLQ(n, s) == << PSRLQ(n, s[1]), PSRLQ(n, s[2]) >>
VPSLLD(n, s) == << PSLLL(n, s[1]), PSLLL(n, s[2]) >>
VPSRLD(n, s) == << PSRLL(n, s[1]), PSRLL(n, s[2]) >>
VEXTRACTI128(imm, s) == s[imm + 1]
VINSERTI128(imm, xw, s) == IF imm = 1 THEN << s[1], xw >> ELSE << xw, s[2] >>
\* a VEX instruction on an XMM register clears the high half of its YMM
VAESENCLAST(key, s) == << AESENCLAST(key, s), Fill16(0) >>
VPUNPCKLDQ(s2, s1) ==
    << Lane(s1[1], 0) \o Lane(s2[1], 0) \o Lane(s1[1], 1) \o Lane(s2[1], 1),
       Lane(s1[2], 0) \o Lane(s2[2], 0) \o Lane(s1[2], 1) \o Lane(s2[2], 1) >>
VPUNPCKHDQ(s2, s1) ==
    << Lane(s1[1], 2) \o Lane(s2[1], 2) \o Lane(s1[1], 3) \o Lane(s2[1], 3),
       Lane(s1[2], 2) \o Lane(s2[2], 2) \o Lane(s1[2], 3) \o Lane(s2[2], 3) >>
VPUNPCKLQDQ(s2, s1) ==
    << Load(s1[1], 0, 8) \o Load(s2[1], 0, 8),
       Load(s1[2], 0, 8) \o Load(s2[2], 0, 8) >>
VPUNPCKHQDQ(s2, s1) ==
    << Load(s1[1], 8, 8) \o Load(s2[1], 8, 8),
       Load(s1[2], 8, 8) \o Load(s2[2], 8, 8) >>

\* gives <<r0, r1, r2, r3>>
TRANSPOSE_MATRIX(r0, r1, r2, r3) ==
    LET Quads(XTMP2, r0a, XTMP1, r2a) ==
            << VPUNPCKLQDQ(XTMP1, r0a), VPUNPCKHQDQ(XTMP1, r0a),
               VPUNPCKLQDQ(r2a, XTMP2), VPUNPCKHQDQ(r2a, XTMP2) >>
    IN  Quads(VPUNPCKHDQ(r1, r0), VPUNPCKLDQ(r1, r0), VPUNPCKLDQ(r3, r2),
              VPUNPCKHDQ(r3, r2))

AVX2_NibbleTables(low, x, m_low, m_high) ==
    VPXOR(VPSHUFB(low, VBROADCASTI128(m_low)),
          VPSHUFB(VPAND(VBROADCASTI128(nibble_mask), VPSRLQ(4, x)),
                  VBROADCASTI128(m_high)))

AVX2_SM4_SBOX(x) ==
    LET NIBBLE_MASK == VBROADCASTI128(nibble_mask)
        A1(x1) ==
            AVX2_NibbleTables(VPAND(NIBBLE_MASK, x1), x1, m1_low, m1_high)
        \* the high half is taken out before VAESENCLAST clears it
        Inverse(x2) ==
            VINSERTI128(1,
                VAESENCLAST(NIBBLE_MASK[1], VEXTRACTI128(1, x2))[1],
                VAESENCLAST(NIBBLE_MASK[1], x2[1]))
        A2(x3) ==
            AVX2_NibbleTables(VPANDN(NIBBLE_MASK, x3), x3, m2_low, m2_high)
    IN  A2(Inverse(VPSHUFB(VBROADCASTI128(inverse_shift_rows), A1(x))))

AVX2_SM4_TAO_L1(x0) ==
    LET Rotl2(y) == VPXOR(VPSLLD(2, y), VPSRLD(30, y))
        L(x) ==
            VPXOR(VPXOR(Rotl2(VPXOR(VPSHUFB(VBROADCASTI128(r16_mask), x),
                              VPXOR(x, VPSHUFB(VBROADCASTI128(r08_mask), x)))),
                        x),
                  VPSHUFB(VBROADCASTI128(r24_mask), x))
    IN  L(AVX2_SM4_SBOX(x0))

\* gives t0, the register the round writes besides x and y
AVX2_SM4_ROUND(rk, t0, t1, t2, t3) ==
    VPXOR(AVX2_SM4_TAO_L1(VPXOR(t3, VPXOR(t2, VPXOR(t1,
              VPBROADCASTD(rk))))), t0)

\* encryptBlocksAsm from avx2 to avx2_loop: <<XDWORD0, .., XDWORD3>>
avx2Entry(src) ==
    LET BYTE_FLIP_MASK == VBROADCASTI128(flip_mask)
    IN  TRANSPOSE_MATRIX(VPSHUFB(BYTE_FLIP_MASK, VMOVDQU(src, 0)),
                         VPSHUFB(BYTE_FLIP_MASK, VMOVDQU(src, 32)),
                         VPSHUFB(BYTE_FLIP_MASK, VMOVDQU(src, 64)),
                         VPSHUFB(BYTE_FLIP_MASK, VMOVDQU(src, 96)))

avx2Loop(xk, CX, r0) ==
    LET Round0(q) ==
            [q EXCEPT ![1] = AVX2_SM4_ROUND(WordAt(xk, CX), q[1], q[2], q[3],
                                            q[4])]
        Round1(q) ==
            [q EXCEPT ![2] = AVX2_SM4_ROUND(WordAt(xk, CX + 4), q[2], q[3],
                                            q[4], q[1])]
        Round2(q) ==
            [q EXCEPT ![3] = AVX2_SM4_ROUND(WordAt(xk, CX + 8), q[3], q[4],
                                            q[1], q[2])]
        Round3(q) ==
            [q EXCEPT ![4] = AVX2_SM4_ROUND(WordAt(xk, CX + 12), q[4], q[1],
                                            q[2], q[3])]
    IN  The({ Round3(r3) : r3 \in
              { Round2(r2) : r2 \in { Round1(r1) : r1 \in { Round0(r0) } } } })

\* encryptBlocksAsm after avx2_loop: dst as it is left
avx2Exit(dst, r) ==
    LET BYTE_FLIP_MASK == VBROADCASTI128(flip_mask2)
        Out(v) == v[1] \o v[2]
        Write(tr) ==
            Store(Store(Store(Store(dst,
                0, Out(VPSHUFB(BYTE_FLIP_MASK, tr[1]))),
                32, Out(VPSHUFB(BYTE_FLIP_MASK, tr[2]))),
                64, Out(VPSHUFB(BYTE_FLIP_MASK, tr[3]))),
                96, Out(VPSHUFB(BYTE_FLIP_MASK, tr[4])))
    IN  Write(TRANSPOSE_MATRIX(r[1], r[2], r[3], r[4]))

---------------------------------------------------------------------------
(* The sm4 state machine: a cipher built from a key by expandKeyAsm, then  *)
(* used through encryptBlockAsm and encryptBlocksAsm with either of its    *)
(* round-key arrays.  The caller owns a 128-byte input a and a 128-byte    *)
(* output b; single blocks are taken from the head of a or of b and        *)
(* written to the head of b.  A routine is entered at its TEXT line, runs  *)
(* its loop one pass at a time, and ends at its RET.                       *)

\* the calls one cipher sees, expandKeyAsm included
MaxSM4Calls == 3

\* the key and plaintext of the standard's worked example, and the cipher
\* text it gives
TestKey ==
    << 1, 35, 69, 103, 137, 171, 205, 239, 254, 220, 186, 152, 118, 84, 50, 16 >>
TestCipher ==
    << 104, 30, 223, 52, 210, 6, 150, 94, 134, 179, 233, 79, 83, 110, 66, 70 >>

\* the constants CK of the key schedule, passed to expandKeyAsm as ck: byte
\* j of word i is (4i + j) * 7 mod 256, most significant first
CK ==
    LET CKWord(i) ==
            << ((4 * i + 3) * 7) % 256, ((4 * i + 2) * 7) % 256,
               ((4 * i + 1) * 7) % 256, ((4 * i) * 7) % 256 >>
    IN  << CKWord(0), CKWord(1), CKWord(2), CKWord(3), CKWord(4), CKWord(5),
           CKWord(6), CKWord(7), CKWord(8), CKWord(9), CKWord(10),
           CKWord(11), CKWord(12), CKWord(13), CKWord(14), CKWord(15),
           CKWord(16), CKWord(17), CKWord(18), CKWord(19), CKWord(20),
           CKWord(21), CKWord(22), CKWord(23), CKWord(24), CKWord(25),
           CKWord(26), CKWord(27), CKWord(28), CKWord(29), CKWord(30),
           CKWord(31) >>

\* sample blocks: number 0 is the worked example
SampleBlock(k) ==
    Bytes16([j \in 1 .. 16 |-> (TestKey[j] + k * (29 * j + 101)) % 256])
Input ==
    SampleBlock(0) \o SampleBlock(1) \o SampleBlock(2) \o SampleBlock(3)
        \o SampleBlock(4) \o SampleBlock(5) \o SampleBlock(6)
        \o SampleBlock(7)

ZeroKeys ==
    LET w == << 0, 0, 0, 0 >>
        e == << w, w, w, w, w, w, w, w >>
    IN  e \o e \o e \o e
ZeroBuffer ==
    Fill16(0) \o Fill16(0) \o Fill16(0) \o Fill16(0) \o Fill16(0)
        \o Fill16(0) \o Fill16(0) \o Fill16(0)

\* the ciphers: a key, and what the vector registers hold whenever one of
\* its routines is entered, which is not the routine's to choose (every
\* byte of them is junk)
Ciphers ==
    { [key |-> SampleBlock(0), junk |-> 255],
      [key |-> SampleBlock(1), junk |-> 0] }
Regs(byte) ==
    [x |-> Fill16(byte), t0 |-> Fill16(byte), t1 |-> Fill16(byte),
     t2 |-> Fill16(byte), t3 |-> Fill16(byte)]

NoArgs == [xk |-> "enc", src |-> "a", n |-> 0, in |-> << >>]

SM4Start(key, avx, junk) ==
    [key |-> key, ck |-> CK, enc |-> ZeroKeys, dec |-> ZeroKeys,
     a |-> Input, b |-> ZeroBuffer, useAVX2 |-> avx, junk |-> junk,
     fn |-> "idle", pc |-> "idle", CX |-> 0, SI |-> 0, args |-> NoArgs,
     X |-> Regs(0),
     Y |-> << VBROADCASTI128(Fill16(0)), VBROADCASTI128(Fill16(0)),
              VBROADCASTI128(Fill16(0)), VBROADCASTI128(Fill16(0)) >>,
     wr |-> [enc |-> << >>, dec |-> << >>, passes |-> 0],
     hist |-> << >>]

InitSM4 ==
    /\ sm \in { SM4Start(c.key, avx, c.junk) :
                  c \in Ciphers, avx \in BOOLEAN }
    /\ mem = [o \in Objs |-> NewCurvePoint]
    /\ last = NoCall
    /\ eu = EUIdle
    /\ s3 = S3Idle

XK(name) == IF name = "enc" THEN sm.enc ELSE sm.dec
Buf(name) == IF name = "a" THEN sm.a ELSE sm.b
Returned(out) ==
    Append(sm.hist, [fn |-> sm.fn, xk |-> sm.args.xk, n |-> sm.args.n,
                     in |-> sm.args.in, out |-> out])
\* ADDL $16, CX; CMPL CX, $4*32; JB loop
LoopOrExit(CX) == IF CX + 16 < 4 * 32 THEN "loop" ELSE "exit"
CanCallSM4 ==
    sm.fn = "idle" /\ Len(sm.hist) >= 1 /\ Len(sm.hist) < MaxSM4Calls

\* expandKeyAsm(key, ck, enc, dec), when the cipher is built
expandKeyAsmCall ==
    /\ sm.fn = "idle" /\ Len(sm.hist) = 0
    /\ sm' = [sm EXCEPT !.fn = "expandKeyAsm", !.pc = "loop",
                        !.CX = 0, !.SI = 112,
                        !.args = [NoArgs EXCEPT !.in = sm.key],
                        !.X = expandKeyEntry(sm.key, Fill16(sm.junk))]
    /\ UNCHANGED <<mem, last, eu, s3>>

expandKeyAsmLoop ==
    /\ sm.fn = "expandKeyAsm" /\ sm.pc = "loop"
    /\ \E res \in {expandKeyLoop(sm.ck, sm.CX, sm.SI, sm.X, sm.enc, sm.dec)} :
           sm' = [sm EXCEPT !.X = res.X, !.enc = res.enc, !.dec = res.dec,
                            !.CX = @ + 16, !.SI = @ - 16,
                            !.wr = [enc |-> @.enc \o EncStores(sm.CX),
                                    dec |-> @.dec \o DecStores(sm.SI),
                                    passes |-> @.passes + 1],
                            !.pc = LoopOrExit(sm.CX)]
    /\ UNCHANGED <<mem, last, eu, s3>>

expandKeyAsmRet ==
    /\ sm.fn = "expandKeyAsm" /\ sm.pc = "exit"
    /\ sm' = [sm EXCEPT !.fn = "idle", !.pc = "idle",
                        !.hist = Returned(<< >>)]
    /\ UNCHANGED <<mem, last, eu, s3>>

\* encryptBlockAsm(xk, &b[0], &src[0])
encryptBlockAsmCall ==
    /\ CanCallSM4
    /\ \E xk \in {"enc", "dec"}, src \in {"a", "b"} :
          sm' = [sm EXCEPT !.fn = "encryptBlockAsm", !.pc = "loop", !.CX = 0,
                           !.args = [xk |-> xk, src |-> src, n |-> 1,
                                     in |-> Buf(src)],
                           !.X = encryptBlockEntry(Buf(src), Regs(sm.junk))]
    /\ UNCHANGED <<mem, last, eu, s3>>

encryptBlockAsmLoop ==
    /\ sm.fn = "encryptBlockAsm" /\ sm.pc = "loop"
    /\ sm' = [sm EXCEPT !.X = encryptBlockLoop(XK(sm.args.xk), sm.CX, sm.X),
                        !.CX = @ + 16, !.pc = LoopOrExit(sm.CX)]
    /\ UNCHANGED <<mem, last, eu, s3>>

encryptBlockAsmRet ==
    /\ sm.fn = "encryptBlockAsm" /\ sm.pc = "exit"
    /\ \E out \in {encryptBlockExit(sm.b, sm.X)} :
           sm' = [sm EXCEPT !.fn = "idle", !.pc = "idle", !.b = out,
                            !.hist = Returned(out)]
    /\ UNCHANGED <<mem, last, eu, s3>>

\* encryptBlocksAsm(xk, b, a[:16*n]) taking the branch to non_avx2_start
encryptBlocksAsmCall ==
    /\ CanCallSM4
    /\ \E xk \in {"enc", "dec"}, n \in {4, 8} :
          /\ 16 * n <= 64 \/ ~sm.useAVX2
          /\ sm' = [sm EXCEPT !.fn = "encryptBlocksAsm", !.pc = "loop",
                              !.CX = 0,
                              !.args = [xk |-> xk, src |-> "a", n |-> n,
                                        in |-> sm.a],
                              !.X = encryptBlocksEntry(sm.a, Regs(sm.junk))]
    /\ UNCHANGED <<mem, last, eu, s3>>

encryptBlocksAsmLoop ==
    /\ sm.fn = "encryptBlocksAsm" /\ sm.pc = "loop"
    /\ sm' = [sm EXCEPT !.X = encryptBlocksLoop(XK(sm.args.xk), sm.CX, sm.X),
                        !.CX = @ + 16, !.pc = LoopOrExit(sm.CX)]
    /\ UNCHANGED <<mem, last, eu, s3>>

encryptBlocksAsmRet ==
    /\ sm.fn = "encryptBlocksAsm" /\ sm.pc = "exit"
    /\ \E out \in {encryptBlocksExit(sm.b, sm.X)} :
           sm' = [sm EXCEPT !.fn = "idle", !.pc = "idle", !.b = out,
                            !.hist = Returned(out)]
    /\ UNCHANGED <<mem, last, eu, s3>>

\* encryptBlocksAsm(xk, b, a[:16*n]) taking the branch to avx2
encryptBlocksAsmCallAVX2 ==
    /\ CanCallSM4
    /\ \E xk \in {"enc", "dec"}, n \in {4, 8} :
          /\ 16 * n > 64 /\ sm.useAVX2
          /\ sm' = [sm EXCEPT !.fn = "encryptBlocksAsm", !.pc = "avx2_loop",
                              !.CX = 0,
                              !.args = [xk |-> xk, src |-> "a", n |-> n,
                                        in |-> sm.a],
                              !.Y = avx2Entry(sm.a)]
    /\ UNCHANGED <<mem, last, eu, s3>>

encryptBlocksAsmLoopAVX2 ==
    /\ sm.fn = "encryptBlocksAsm" /\ sm.pc = "avx2_loop"
    /\ sm' = [sm EXCEPT !.Y = avx2Loop(XK(sm.args.xk), sm.CX, sm.Y),
                        !.CX = @ + 16,
                        !.pc = IF sm.CX + 16 < 4 * 32 THEN "avx2_loop"
                                                     ELSE "avx2_exit"]
    /\ UNCHANGED <<mem, last, eu, s3>>

encryptBlocksAsmRetAVX2 ==
    /\ sm.fn = "encryptBlocksAsm" /\ sm.pc = "avx2_exit"
    /\ \E out \in {avx2Exit(sm.b, sm.Y)} :
           sm' = [sm EXCEPT !.fn = "idle", !.pc = "idle", !.b = out,
                            !.hist = Returned(out)]
    /\ UNCHANGED <<mem, last, eu, s3>>

NextSM4 ==
    \/ expandKeyAsmCall
    \/ expandKeyAsmLoop
    \/ expandKeyAsmRet
    \/ encryptBlockAsmCall
    \/ encryptBlockAsmLoop
    \/ encryptBlockAsmRet
    \/ encryptBlocksAsmCall
    \/ encryptBlocksAsmLoop
    \/ encryptBlocksAsmRet
    \/ encryptBlocksAsmCallAVX2
    \/ encryptBlocksAsmLoopAVX2
    \/ encryptBlocksAsmRetAVX2

SpecSM4 == InitSM4 /\ [][NextSM4]_vars

---------------------------------------------------------------------------
(* What the claims say about sm4                                           *)

Block(buf, i) == Load(buf, 16 * i, 16)

\* encryptBlockAsm from entry to RET on one block
RECURSIVE encryptBlockLoops(_, _, _)
encryptBlockLoops(xk, CX, r) ==
    IF CX >= 4 * 32 THEN r
    ELSE The({ encryptBlockLoops(xk, CX + 16, q) :
                 q \in { encryptBlockLoop(xk, CX, r) } })
encryptBlockValue(xk, blk) ==
    encryptBlockExit(Fill16(0),
        encryptBlockLoops(xk, 0, encryptBlockEntry(blk, Regs(0))))

SM4Running == sm # SMIdle /\ Len(sm.hist) >= 1

\* C9: a block encrypted by encryptBlockAsm with the encryption round keys
\* of expandKeyAsm and then put through encryptBlockAsm again with the
\* decryption round keys of the same expandKeyAsm comes out as it was.
C9_RoundTrip ==
    SM4Running =>
        \A i \in 2 .. Len(sm.hist) - 1 :
            LET e == sm.hist[i]
                d == sm.hist[i + 1]
            IN  (/\ sm.hist[1].fn = "expandKeyAsm"
                 /\ e.fn = "encryptBlockAsm" /\ e.xk = "enc"
                 /\ d.fn = "encryptBlockAsm" /\ d.xk = "dec"
                 /\ Block(d.in, 0) = Block(e.out, 0))
                    => Block(d.out, 0) = Block(e.in, 0)

C9_Witness ==
    /\ SM4Running /\ Len(sm.hist) = 3
    /\ sm.hist[1].fn = "expandKeyAsm" /\ sm.key = TestKey
    /\ sm.hist[2].fn = "encryptBlockAsm" /\ sm.hist[2].xk = "enc"
    /\ Block(sm.hist[2].in, 0) = TestKey
    /\ Block(sm.hist[2].out, 0) = TestCipher
    /\ sm.hist[3].fn = "encryptBlockAsm" /\ sm.hist[3].xk = "dec"
    /\ Block(sm.hist[3].in, 0) = TestCipher
    /\ Block(sm.hist[3].out, 0) = TestKey

\* C10: called on 4 or on 8 blocks, encryptBlocksAsm leaves in dst, block
\* for block, what encryptBlockAsm gives for each block of src, whichever
\* branch it took.
C10_BlocksAreBlockwise ==
    (SM4Running /\ sm.fn = "idle"
       /\ sm.hist[Len(sm.hist)].fn = "encryptBlocksAsm")
        => LET c == sm.hist[Len(sm.hist)]
           IN  \A i \in 0 .. c.n - 1 :
                   Block(c.out, i)
                       = encryptBlockValue(XK(c.xk), Block(c.in, i))

\* the byte offsets of the 32 words of a round-key array
KeyOffsets == { 4 * i : i \in 0 .. 31 }
\* a sequence of offsets that names no offset twice
OnceEach(w) == \A i, j \in 1 .. Len(w) : w[i] = w[j] => i = j
Range(w) == { w[i] : i \in 1 .. Len(w) }

\* C11: every store of expandKeyAsm goes to one of the 32 words of enc or
\* of dec and no word is stored twice; when it has returned, its loop has
\* made exactly 8 passes of 4 rounds, every word of both arrays has been
\* stored once, and dec[31 - i] = enc[i] for every i in 0..31.
C11_DecIsEncReversed ==
    /\ Range(sm.wr.enc) \subseteq KeyOffsets /\ OnceEach(sm.wr.enc)
    /\ Range(sm.wr.dec) \subseteq KeyOffsets /\ OnceEach(sm.wr.dec)
    /\ SM4Running =>
          /\ sm.hist[1].fn = "expandKeyAsm"
          /\ sm.wr.passes = 8
          /\ Range(sm.wr.enc) = KeyOffsets /\ Len(sm.wr.enc) = 32
          /\ Range(sm.wr.dec) = KeyOffsets /\ Len(sm.wr.dec) = 32
          /\ \A i \in 0 .. 31 : sm.dec[(31 - i) + 1] = sm.enc[i + 1]

\* expandKeyAsm has returned for the key of the standard's worked example:
\* rk[0] = F12186F9 and rk[31] = 9124A012, and dec holds them reversed
C11_Witness ==
    /\ SM4Running /\ sm.fn = "idle" /\ Len(sm.hist) = 1
    /\ sm.key = TestKey
    /\ sm.enc[1] = << 249, 134, 33, 241 >> /\ sm.enc[32] = << 18, 160, 36, 145 >>
    /\ sm.dec[32] = << 249, 134, 33, 241 >> /\ sm.dec[1] = << 18, 160, 36, 145 >>
    /\ sm.enc[1] # sm.enc[32]

---------------------------------------------------------------------------
(* The SM3 block routine of ARM64 (func block(dig *digest, p []byte)).     *)
(* A 32-bit register is the tuple of its four bytes, the most significant  *)
(* first.  The register file r holds the scratch registers AX, BX, CX, DX  *)
(* and hlp0, the eight working registers R19 .. R26, the pointer SI as an  *)
(* offset into p, and the 68 words W the routine keeps on its stack at BP. *)
(* An instruction "OP s, d" is the operator OP(s, d), the new value of d.  *)

W32(f) == SubSeq(f, 1, 4)

(* Each instruction reads its operands once: x and y are their values.     *)
EORW(s, d) ==
    The({ W32([i \in 1 .. 4 |-> bxor(x[i], y[i])]) : x \in {s}, y \in {d} })
ANDW(s, d) ==
    The({ W32([i \in 1 .. 4 |-> band(x[i], y[i])]) : x \in {s}, y \in {d} })
ORRW(s, d) ==
    The({ W32([i \in 1 .. 4 |-> x[i] + y[i] - band(x[i], y[i])]) :
          x \in {s}, y \in {d} })
MVNW(s) == The({ W32([i \in 1 .. 4 |-> 255 - x[i]]) : x \in {s} })
REVW(s) == The({ << x[4], x[3], x[2], x[1] >> : x \in {s} })

\* the sum modulo 2^32, by 16-bit halves
ADDW(s, d) ==
    The({ << (hi \div 256) % 256, hi % 256, (lo \div 256) % 256, lo % 256 >> :
          hi \in { x[1] * 256 + x[2] + y[1] * 256 + y[2]
                     + ((x[3] * 256 + x[4] + y[3] * 256 + y[4]) \div 65536) :
                   x \in {s}, y \in {d} },
          lo \in { x[3] * 256 + x[4] + y[3] * 256 + y[4] :
                   x \in {s}, y \in {d} } })

\* d rotated right by n bits: the byte k places above the least significant
\* one takes the high bits of the byte n \div 8 places above it and the low
\* bits of the next
RORW(n, d) ==
    The({ W32([i \in 1 .. 4 |->
                (y[4 - (((4 - i) + (n \div 8)) % 4)] \div (2 ^ (n % 8)))
                + ((y[4 - (((4 - i) + (n \div 8) + 1) % 4)]
                      * (2 ^ (8 - (n % 8)))) % 256)]) :
          y \in {d} })

\* the bytes of the slice's backing memory: those of p, then others
ByteAt(p, off) == IF off < Len(p) THEN p[off + 1] ELSE 165

\* MOVW off(SI), AX: a little-endian load
MOVW(p, off) ==
    << ByteAt(p, off + 3), ByteAt(p, off + 2), ByteAt(p, off + 1), ByteAt(p, off) >>

\* Wt = Mt; for 0 <= t <= 3
MSGSCHEDULE0(r, p, index) ==
    LET Write(AX) ==
            [r EXCEPT !.AX = AX, !.W[index + 1] = AX,
                      !.rd = @ \cup {r.SI + index * 4 + k : k \in 0 .. 3}]
    IN  Write(REVW(MOVW(p, r.SI + index * 4)))

\* Wt+4 = Mt+4; for 0 <= t <= 11
MSGSCHEDULE01(r, p, index) ==
    LET Write(AX) ==
            [r EXCEPT !.AX = AX, !.W[(index + 4) + 1] = AX,
                      !.rd = @ \cup {r.SI + (index + 4) * 4 + k : k \in 0 .. 3}]
    IN  Write(REVW(MOVW(p, r.SI + (index + 4) * 4)))

\* x = Wt-12 XOR Wt-5 XOR ROTL(15, Wt+1); Wt+4 = p1(x) XOR ROTL(7, Wt-9)
\* XOR Wt-2; for 12 <= t <= 63
MSGSCHEDULE1(r, index) ==
    LET P1(x) ==
            [AX |-> EORW(RORW(9, x), EORW(RORW(17, x), x)),
             BX |-> RORW(17, x), CX |-> RORW(9, x)]
        Mix(q) ==
            [AX |-> EORW(r.W[(index - 2) + 1],
                         EORW(RORW(25, r.W[(index - 9) + 1]), q.AX)),
             BX |-> RORW(25, r.W[(index - 9) + 1]),
             CX |-> r.W[(index - 2) + 1]]
        Write(q) ==
            [r EXCEPT !.AX = q.AX, !.BX = q.BX, !.CX = q.CX,
                      !.W[(index + 4) + 1] = q.AX]
    IN  Write(Mix(P1(EORW(r.W[(index - 5) + 1],
                          EORW(r.W[(index - 12) + 1],
                               RORW(17, r.W[(index + 1) + 1]))))))

\* ss1 in BX: x = ROTL(12, a) + e + ROTL(index, const); ret = ROTL(7, x)
SM3SS1(r, const, a, e) ==
    [r EXCEPT !.BX = RORW(25, ADDW(const, ADDW(r[e], RORW(20, r[a]))))]

\* tt1 in CX: (a XOR b XOR c) + d + (ROTL(12, a) XOR ss1) + (Wt XOR Wt+4)
SM3TT10(r, index, a, b, c, d) ==
    LET Sum(AX) ==
            [AX |-> AX,
             DX |-> ADDW(AX, ADDW(r[d], EORW(r[c], EORW(r[a], r[b]))))]
        Write(q) ==
            [r EXCEPT !.hlp0 = r.W[index + 1], !.AX = q.AX, !.DX = q.DX,
                      !.CX = ADDW(q.DX, EORW(r.BX, RORW(20, r[a])))]
    IN  Write(Sum(EORW(r.W[index + 1], r.AX)))

\* tt2 in BX: (e XOR f XOR g) + h + ss1 + Wt
SM3TT20(r, e, f, g, h) ==
    LET Write(hlp0) ==
            [r EXCEPT !.hlp0 = hlp0, !.DX = r[g],
                      !.BX = ADDW(hlp0, EORW(r[g], EORW(r[f], r[e])))]
    IN  Write(ADDW(r.BX, ADDW(r[h], r.hlp0)))

\* tt1 in CX: ((a AND b) OR (a AND c) OR (b AND c)) + d
\* + (ROTL(12, a) XOR ss1) + (Wt XOR Wt+4)
SM3TT11(r, index, a, b, c, d) ==
    LET Sum(DX) ==
            [DX |-> DX, CX |-> ADDW(DX, EORW(r.BX, RORW(20, r[a])))]
        Words(AX) ==
            [AX |-> AX, hlp0 |-> r.W[index + 1]]
        Write(q, w) ==
            [r EXCEPT !.DX = q.DX, !.hlp0 = w.hlp0, !.AX = w.AX,
                      !.CX = ADDW(w.AX, q.CX)]
    IN  Write(Sum(ADDW(r[d],
                       ORRW(ORRW(ANDW(r[a], r[b]), ANDW(r[c], r[a])),
                            ANDW(r[c], r[b])))),
              Words(EORW(r.W[index + 1], r.AX)))

\* tt2 in BX: ((e AND f) OR (NOT(e) AND g)) + h + ss1 + Wt
SM3TT21(r, e, f, g, h) ==
    LET Write(hlp0) ==
            [r EXCEPT !.hlp0 = hlp0, !.DX = ANDW(r[e], r[f]), !.AX = r[g],
                      !.BX = ADDW(hlp0, ORRW(ANDW(r[e], r[f]),
                                             ANDW(r[g], MVNW(r[e]))))]
    IN  Write(ADDW(r.BX, ADDW(r[h], r.hlp0)))

\* COPYRESULT storing tt2 itself in d
COPYRESULTWithoutP0(r, b, d, f, h) ==
    [r EXCEPT ![b] = RORW(23, r[b]), ![h] = r.CX, ![f] = RORW(13, r[f]),
              !.CX = r.BX, ![d] = r.BX]

\* b = ROTL(9, b); h = tt1; f = ROTL(19, f);
\* d = tt2 XOR ROTL(9, tt2) XOR ROTL(17, tt2)
COPYRESULT(r, b, d, f, h) ==
    LET Write(CX) ==
            [r EXCEPT ![b] = RORW(23, r[b]), ![h] = r.CX, ![f] = RORW(13, r[f]),
                      !.CX = CX, !.BX = RORW(15, r.BX), ![d] = CX]
    IN  Write(EORW(RORW(15, r.BX), EORW(r.BX, RORW(23, r.BX))))

SM3ROUND0(r, p, index, const, a, b, c, d, e, f, g, h) ==
    The({ COPYRESULT(tt2, b, d, f, h) :
          tt2 \in { SM3TT20(tt1, e, f, g, h) :
          tt1 \in { SM3TT10(ss1, index, a, b, c, d) :
          ss1 \in { SM3SS1(w, const, a, e) :
          w \in { MSGSCHEDULE01(r, p, index) } } } } })

SM3ROUND1(r, index, const, a, b, c, d, e, f, g, h) ==
    The({ COPYRESULT(tt2, b, d, f, h) :
          tt2 \in { SM3TT20(tt1, e, f, g, h) :
          tt1 \in { SM3TT10(ss1, index, a, b, c, d) :
          ss1 \in { SM3SS1(w, const, a, e) :
          w \in { MSGSCHEDULE1(r, index) } } } } })

SM3ROUND2(r, index, const, a, b, c, d, e, f, g, h) ==
    The({ COPYRESULT(tt2, b, d, f, h) :
          tt2 \in { SM3TT21(tt1, e, f, g, h) :
          tt1 \in { SM3TT11(ss1, index, a, b, c, d) :
          ss1 \in { SM3SS1(w, const, a, e) :
          w \in { MSGSCHEDULE1(r, index) } } } } })

\* the 64 round macro calls of the loop body, in order
blockRounds ==
    <<
       [macro |-> 0, const |-> << 121, 204, 69, 25 >>,
        regs |-> << "R19", "R20", "R21", "R22", "R23", "R24", "R25", "R26" >>],
       [macro |-> 0, const |-> << 243, 152, 138, 50 >>,
        regs |-> << "R26", "R19", "R20", "R21", "R22", "R23", "R24", "R25" >>],
       [macro |-> 0, const |-> << 231, 49, 20, 101 >>,
        regs |-> << "R25", "R26", "R19", "R20", "R21", "R22", "R23", "R24" >>],
       [macro |-> 0, const |-> << 206, 98, 40, 203 >>,
        regs |-> << "R24", "R25", "R26", "R19", "R20", "R21", "R22", "R23" >>],
       [macro |-> 0, const |-> << 156, 196, 81, 151 >>,
        regs |-> << "R23", "R24", "R25", "R26", "R19", "R20", "R21", "R22" >>],
       [macro |-> 0, const |-> << 57, 136, 163, 47 >>,
        regs |-> << "R22", "R23", "R24", "R25", "R26", "R19", "R20", "R21" >>],
       [macro |-> 0, const |-> << 115, 17, 70, 94 >>,
        regs |-> << "R21", "R22", "R23", "R24", "R25", "R26", "R19", "R20" >>],
       [macro |-> 0, const |-> << 230, 34, 140, 188 >>,
        regs |-> << "R20", "R21", "R22", "R23", "R24", "R25", "R26", "R19" >>],
       [macro |-> 0, const |-> << 204, 69, 25, 121 >>,
        regs |-> << "R19", "R20", "R21", "R22", "R23", "R24", "R25", "R26" >>],
       [macro |-> 0, const |-> << 152, 138, 50, 243 >>,
        regs |-> << "R26", "R19", "R20", "R21", "R22", "R23", "R24", "R25" >>],
       [macro |-> 0, const |-> << 49, 20, 101, 231 >>,
        regs |-> << "R25", "R26", "R19", "R20", "R21", "R22", "R23", "R24" >>],
       [macro |-> 0, const |-> << 98, 40, 203, 206 >>,
        regs |-> << "R24", "R25", "R26", "R19", "R20", "R21", "R22", "R23" >>],
       [macro |-> 1, const |-> << 196, 81, 151, 156 >>,
        regs |-> << "R23", "R24", "R25", "R26", "R19", "R20", "R21", "R22" >>],
       [macro |-> 1, const |-> << 136, 163, 47, 57 >>,
        regs |-> << "R22", "R23", "R24", "R25", "R26", "R19", "R20", "R21" >>],
       [macro |-> 1, const |-> << 17, 70, 94, 115 >>,
        regs |-> << "R21", "R22", "R23", "R24", "R25", "R26", "R19", "R20" >>],
       [macro |-> 1, const |-> << 34, 140, 188, 230 >>,
        regs |-> << "R20", "R21", "R22", "R23", "R24", "R25", "R26", "R19" >>],
       [macro |-> 2, const |-> << 157, 138, 122, 135 >>,
        regs |-> << "R19", "R20", "R21", "R22", "R23", "R24", "R25", "R26" >>],
       [macro |-> 2, const |-> << 59, 20, 245, 15 >>,
        regs |-> << "R26", "R19", "R20", "R21", "R22", "R23", "R24", "R25" >>],
       [macro |-> 2, const |-> << 118, 41, 234, 30 >>,
        regs |-> << "R25", "R26", "R19", "R20", "R21", "R22", "R23", "R24" >>],
       [macro |-> 2, const |-> << 236, 83, 212, 60 >>,
        regs |-> << "R24", "R25", "R26", "R19", "R20", "R21", "R22", "R23" >>],
       [macro |-> 2, const |-> << 216, 167, 168, 121 >>,
        regs |-> << "R23", "R24", "R25", "R26", "R19", "R20", "R21", "R22" >>],
       [macro |-> 2, const |-> << 177, 79, 80, 243 >>,
        regs |-> << "R22", "R23", "R24", "R25", "R26", "R19", "R20", "R21" >>],
       [macro |-> 2, const |-> << 98, 158, 161, 231 >>,
        regs |-> << "R21", "R22", "R23", "R24", "R25", "R26", "R19", "R20" >>],
       [macro |-> 2, const |-> << 197, 61, 67, 206 >>,
        regs |-> << "R20", "R21", "R22", "R23", "R24", "R25", "R26", "R19" >>],
       [macro |-> 2, const |-> << 138, 122, 135, 157 >>,
        regs |-> << "R19", "R20", "R21", "R22", "R23", "R24", "R25", "R26" >>],
       [macro |-> 2, const |-> << 20, 245, 15, 59 >>,
        regs |-> << "R26", "R19", "R20", "R21", "R22", "R23", "R24", "R25" >>],
       [macro |-> 2, const |-> << 41, 234, 30, 118 >>,
        regs |-> << "R25", "R26", "R19", "R20", "R21", "R22", "R23", "R24" >>],
       [macro |-> 2, const |-> << 83, 212, 60, 236 >>,
        regs |-> << "R24", "R25", "R26", "R19", "R20", "R21", "R22", "R23" >>],
       [macro |-> 2, const |-> << 167, 168, 121, 216 >>,
        regs |-> << "R23", "R24", "R25", "R26", "R19", "R20", "R21", "R22" >>],
       [macro |-> 2, const |-> << 79, 80, 243, 177 >>,
        regs |-> << "R22", "R23", "R24", "R25", "R26", "R19", "R20", "R21" >>],
       [macro |-> 2, const |-> << 158, 161, 231, 98 >>,
        regs |-> << "R21", "R22", "R23", "R24", "R25", "R26", "R19", "R20" >>],
       [macro |-> 2, const |-> << 61, 67, 206, 197 >>,
        regs |-> << "R20", "R21", "R22", "R23", "R24", "R25", "R26", "R19" >>],
       [macro |-> 2, const |-> << 122, 135, 157, 138 >>,
        regs |-> << "R19", "R20", "R21", "R22", "R23", "R24", "R25", "R26" >>],
       [macro |-> 2, const |-> << 245, 15, 59, 20 >>,
        regs |-> << "R26", "R19", "R20", "R21", "R22", "R23", "R24", "R25" >>],
       [macro |-> 2, const |-> << 234, 30, 118, 41 >>,
        regs |-> << "R25", "R26", "R19", "R20", "R21", "R22", "R23", "R24" >>],
       [macro |-> 2, const |-> << 212, 60, 236, 83 >>,
        regs |-> << "R24", "R25", "R26", "R19", "R20", "R21", "R22", "R23" >>],
       [macro |-> 2, const |-> << 168, 121, 216, 167 >>,
        regs |-> << "R23", "R24", "R25", "R26", "R19", "R20", "R21", "R22" >>],
       [macro |-> 2, const |-> << 80, 243, 177, 79 >>,
        regs |-> << "R22", "R23", "R24", "R25", "R26", "R19", "R20", "R21" >>],
       [macro |-> 2, const |-> << 161, 231, 98, 158 >>,
        regs |-> << "R21", "R22", "R23", "R24", "R25", "R26", "R19", "R20" >>],
       [macro |-> 2, const |-> << 67, 206, 197, 61 >>,
        regs |-> << "R20", "R21", "R22", "R23", "R24", "R25", "R26", "R19" >>],
       [macro |-> 2, const |-> << 135, 157, 138, 122 >>,
        regs |-> << "R19", "R20", "R21", "R22", "R23", "R24", "R25", "R26" >>],
       [macro |-> 2, const |-> << 15, 59, 20, 245 >>,
        regs |-> << "R26", "R19", "R20", "R21", "R22", "R23", "R24", "R25" >>],
       [macro |-> 2, const |-> << 30, 118, 41, 234 >>,
        regs |-> << "R25", "R26", "R19", "R20", "R21", "R22", "R23", "R24" >>],
       [macro |-> 2, const |-> << 60, 236, 83, 212 >>,
        regs |-> << "R24", "R25", "R26", "R19", "R20", "R21", "R22", "R23" >>],
       [macro |-> 2, const |-> << 121, 216, 167, 168 >>,
        regs |-> << "R23", "R24", "R25", "R26", "R19", "R20", "R21", "R22" >>],
       [macro |-> 2, const |-> << 243, 177, 79, 80 >>,
        regs |-> << "R22", "R23", "R24", "R25", "R26", "R19", "R20", "R21" >>],
       [macro |-> 2, const |-> << 231, 98, 158, 161 >>,
        regs |-> << "R21", "R22", "R23", "R24", "R25", "R26", "R19", "R20" >>],
       [macro |-> 2, const |-> << 206, 197, 61, 67 >>,
        regs |-> << "R20", "R21", "R22", "R23", "R24", "R25", "R26", "R19" >>],
       [macro |-> 2, const |-> << 157, 138, 122, 135 >>,
        regs |-> << "R19", "R20", "R21", "R22", "R23", "R24", "R25", "R26" >>],
       [macro |-> 2, const |-> << 59, 20, 245, 15 >>,
        regs |-> << "R26", "R19", "R20", "R21", "R22", "R23", "R24", "R25" >>],
       [macro |-> 2, const |-> << 118, 41, 234, 30 >>,
        regs |-> << "R25", "R26", "R19", "R20", "R21", "R22", "R23", "R24" >>],
       [macro |-> 2, const |-> << 236, 83, 212, 60 >>,
        regs |-> << "R24", "R25", "R26", "R19", "R20", "R21", "R22", "R23" >>],
       [macro |-> 2, const |-> << 216, 167, 168, 121 >>,
        regs |-> << "R23", "R24", "R25", "R26", "R19", "R20", "R21", "R22" >>],
       [macro |-> 2, const |-> << 177, 79, 80, 243 >>,
        regs |-> << "R22", "R23", "R24", "R25", "R26", "R19", "R20", "R21" >>],
       [macro |-> 2, const |-> << 98, 158, 161, 231 >>,
        regs |-> << "R21", "R22", "R23", "R24", "R25", "R26", "R19", "R20" >>],
       [macro |-> 2, const |-> << 197, 61, 67, 206 >>,
        regs |-> << "R20", "R21", "R22", "R23", "R24", "R25", "R26", "R19" >>],
       [macro |-> 2, const |-> << 138, 122, 135, 157 >>,
        regs |-> << "R19", "R20", "R21", "R22", "R23", "R24", "R25", "R26" >>],
       [macro |-> 2, const |-> << 20, 245, 15, 59 >>,
        regs |-> << "R26", "R19", "R20", "R21", "R22", "R23", "R24", "R25" >>],
       [macro |-> 2, const |-> << 41, 234, 30, 118 >>,
        regs |-> << "R25", "R26", "R19", "R20", "R21", "R22", "R23", "R24" >>],
       [macro |-> 2, const |-> << 83, 212, 60, 236 >>,
        regs |-> << "R24", "R25", "R26", "R19", "R20", "R21", "R22", "R23" >>],
       [macro |-> 2, const |-> << 167, 168, 121, 216 >>,
        regs |-> << "R23", "R24", "R25", "R26", "R19", "R20", "R21", "R22" >>],
       [macro |-> 2, const |-> << 79, 80, 243, 177 >>,
        regs |-> << "R22", "R23", "R24", "R25", "R26", "R19", "R20", "R21" >>],
       [macro |-> 2, const |-> << 158, 161, 231, 98 >>,
        regs |-> << "R21", "R22", "R23", "R24", "R25", "R26", "R19", "R20" >>],
       [macro |-> 2, const |-> << 61, 67, 206, 197 >>,
        regs |-> << "R20", "R21", "R22", "R23", "R24", "R25", "R26", "R19" >>] >>

\* the initial value of the digest words
IV ==
    << << 115, 128, 22, 111 >>, << 73, 20, 178, 185 >>,
       << 23, 36, 66, 215 >>, << 218, 138, 6, 0 >>,
       << 169, 111, 48, 188 >>, << 22, 49, 56, 170 >>,
       << 227, 141, 238, 77 >>, << 176, 251, 14, 78 >> >>

\* the padded message "abc", one block
AbcBlock ==
    << 97, 98, 99, 128, 0, 0, 0, 0, 0, 0, 0, 0, 0, 0, 0, 0,
       0, 0, 0, 0, 0, 0, 0, 0, 0, 0, 0, 0, 0, 0, 0, 0,
       0, 0, 0, 0, 0, 0, 0, 0, 0, 0, 0, 0, 0, 0, 0, 0,
       0, 0, 0, 0, 0, 0, 0, 0, 0, 0, 0, 0, 0, 0, 0, 24 >>

\* the message "abcd" 16 times, one block, and the block of its padding
AbcdBlock ==
    << 97, 98, 99, 100, 97, 98, 99, 100, 97, 98, 99, 100, 97, 98, 99, 100,
       97, 98, 99, 100, 97, 98, 99, 100, 97, 98, 99, 100, 97, 98, 99, 100,
       97, 98, 99, 100, 97, 98, 99, 100, 97, 98, 99, 100, 97, 98, 99, 100,
       97, 98, 99, 100, 97, 98, 99, 100, 97, 98, 99, 100, 97, 98, 99, 100 >>
AbcdPadding ==
    << 128, 0, 0, 0, 0, 0, 0, 0, 0, 0, 0, 0, 0, 0, 0, 0,
       0, 0, 0, 0, 0, 0, 0, 0, 0, 0, 0, 0, 0, 0, 0, 0,
       0, 0, 0, 0, 0, 0, 0, 0, 0, 0, 0, 0, 0, 0, 0, 0,
       0, 0, 0, 0, 0, 0, 0, 0, 0, 0, 0, 0, 0, 0, 2, 0 >>

\* the digests of "abc" and of 16 times "abcd" (GM/T 0004, examples 1 and 2)
AbcDigest ==
    << << 102, 199, 240, 244 >>, << 98, 238, 237, 217 >>,
       << 209, 242, 212, 107 >>, << 220, 16, 228, 226 >>,
       << 65, 103, 196, 135 >>, << 92, 242, 247, 162 >>,
       << 41, 125, 160, 43 >>, << 143, 75, 168, 224 >> >>
AbcdDigest ==
    << << 222, 190, 159, 249 >>, << 34, 117, 184, 161 >>,
       << 56, 96, 72, 137 >>, << 193, 142, 90, 77 >>,
       << 111, 219, 112, 229 >>, << 56, 126, 87, 101 >>,
       << 41, 61, 203, 163 >>, << 156, 12, 87, 50 >> >>

\* the backing memory of the slices: whole blocks and two bytes more
Buffers ==
    { AbcBlock \o AbcdBlock \o << 17, 34 >>,
      AbcdBlock \o AbcdPadding \o << 51, 68 >> }

\* the lengths of the slices
SliceLens == {0, 1, 63, 64, 65, 127, 128, 130}

\* what the scratch registers and the stack hold when the routine is entered
StackJunk == { << 0, 0, 0, 0 >>, << 222, 173, 190, 239 >> }

\* the caller makes at most MaxBlockCalls calls of block
MaxBlockCalls == 1

InitSM3 ==
    /\ s3 = [pc |-> "idle", dig |-> IV, calls |-> 0, done |-> 0, len |-> 0,
             p |-> << >>, start |-> IV, h0 |-> IV, j |-> 0, r |-> << >>]
    /\ mem = [o \in Objs |-> NewCurvePoint]
    /\ last = NoCall
    /\ eu = EUIdle
    /\ sm = SMIdle

\* AND $~63, DX
AND127(DX) == DX - (DX % 128)
AND63(DX) == DX - (DX % 64)

\* LDPW (0*8)(hlp1), (R19, R20) .. LDPW (3*8)(hlp1), (R25, R26)
LoadDigest(r, dig) ==
    [r EXCEPT !.R19 = dig[1], !.R20 = dig[2], !.R21 = dig[3], !.R22 = dig[4],
              !.R23 = dig[5], !.R24 = dig[6], !.R25 = dig[7], !.R26 = dig[8]]

\* the registers and the stack at the first instruction
EntryRegs(junk) ==
    [AX |-> junk, BX |-> junk, CX |-> junk, DX |-> junk, hlp0 |-> junk,
     R19 |-> junk, R20 |-> junk, R21 |-> junk, R22 |-> junk,
     R23 |-> junk, R24 |-> junk, R25 |-> junk, R26 |-> junk,
     SI |-> 0, DI |-> 0, W |-> SubSeq([i \in 1 .. 68 |-> junk], 1, 68),
     rd |-> {}]

\* from TEXT to the label loop, or to end when no whole block is there
blockEntry(p, len, junk) ==
    /\ s3.pc = "idle"
    /\ s3.calls < MaxBlockCalls
    /\ len <= Len(p)
    /\ s3' = [s3 EXCEPT
                !.pc = IF AND63(len) = 0 THEN "end" ELSE "loop",
                !.p = p, !.len = len, !.start = s3.dig, !.done = 0, !.j = 0,
                !.r = IF AND63(len) = 0
                      THEN EntryRegs(junk)
                      ELSE LoadDigest([EntryRegs(junk) EXCEPT
                                          !.DI = 0 + AND63(len)], s3.dig)]
    /\ UNCHANGED <<mem, last, eu, sm>>

\* MSGSCHEDULE0(0) .. MSGSCHEDULE0(3)
blockLoop ==
    /\ s3.pc = "loop"
    /\ s3' = [s3 EXCEPT
                !.pc = "round", !.j = 0, !.h0 = s3.dig,
                !.r = The({ MSGSCHEDULE0(w2, s3.p, 3) :
                            w2 \in { MSGSCHEDULE0(w1, s3.p, 2) :
                            w1 \in { MSGSCHEDULE0(w0, s3.p, 1) :
                            w0 \in { MSGSCHEDULE0(s3.r, s3.p, 0) } } } })]
    /\ UNCHANGED <<mem, last, eu, sm>>

AfterRound == IF s3.j = 63 THEN "final" ELSE "round"

\* SM3ROUND0(index, const, a, ..., h), the call number s3.j of the loop body
blockRound0 ==
    /\ s3.pc = "round"
    /\ blockRounds[s3.j + 1].macro = 0
    /\ \E c \in {blockRounds[s3.j + 1]} :
          s3' = [s3 EXCEPT
                   !.pc = AfterRound, !.j = @ + 1,
                   !.r = SM3ROUND0(s3.r, s3.p, s3.j, c.const,
                                   c.regs[1], c.regs[2], c.regs[3], c.regs[4],
                                   c.regs[5], c.regs[6], c.regs[7], c.regs[8])]
    /\ UNCHANGED <<mem, last, eu, sm>>

blockRound1 ==
    /\ s3.pc = "round"
    /\ blockRounds[s3.j + 1].macro = 1
    /\ \E c \in {blockRounds[s3.j + 1]} :
          s3' = [s3 EXCEPT
                   !.pc = AfterRound, !.j = @ + 1,
                   !.r = SM3ROUND1(s3.r, s3.j, c.const,
                                   c.regs[1], c.regs[2], c.regs[3], c.regs[4],
                                   c.regs[5], c.regs[6], c.regs[7], c.regs[8])]
    /\ UNCHANGED <<mem, last, eu, sm>>

blockRound2 ==
    /\ s3.pc = "round"
    /\ blockRounds[s3.j + 1].macro = 2
    /\ \E c \in {blockRounds[s3.j + 1]} :
          s3' = [s3 EXCEPT
                   !.pc = AfterRound, !.j = @ + 1,
                   !.r = SM3ROUND2(s3.r, s3.j, c.const,
                                   c.regs[1], c.regs[2], c.regs[3], c.regs[4],
                                   c.regs[5], c.regs[6], c.regs[7], c.regs[8])]
    /\ UNCHANGED <<mem, last, eu, sm>>

\* H0 = a XOR H0 .. H7 = h XOR H7, stored pair by pair
XorDigest(r, dig) ==
    [r EXCEPT !.AX = dig[7], !.BX = dig[8],
              !.R19 = EORW(dig[1], @), !.R20 = EORW(dig[2], @),
              !.R21 = EORW(dig[3], @), !.R22 = EORW(dig[4], @),
              !.R23 = EORW(dig[5], @), !.R24 = EORW(dig[6], @),
              !.R25 = EORW(dig[7], @), !.R26 = EORW(dig[8], @)]
StoreDigest(r) ==
    << r.R19, r.R20, r.R21, r.R22, r.R23, r.R24, r.R25, r.R26 >>

\* from the first LDPW after the rounds to BNE loop
blockFinal ==
    /\ s3.pc = "final"
    /\ \E r \in {XorDigest(s3.r, s3.dig)} :
          s3' = [s3 EXCEPT
                   !.pc = IF r.SI + 64 # r.DI THEN "loop" ELSE "end",
                   !.done = @ + 1,
                   !.dig = StoreDigest(r),
                   !.r = [r EXCEPT !.SI = @ + 64]]
    /\ UNCHANGED <<mem, last, eu, sm>>

\* end: RET
blockRet ==
    /\ s3.pc = "end"
    /\ s3' = [s3 EXCEPT !.pc = "idle", !.calls = @ + 1]
    /\ UNCHANGED <<mem, last, eu, sm>>

NextSM3 ==
    \/ \E p \in Buffers, len \in SliceLens, junk \in StackJunk :
          blockEntry(p, len, junk)
    \/ blockLoop
    \/ blockRound0
    \/ blockRound1
    \/ blockRound2
    \/ blockFinal
    \/ blockRet

SpecSM3 == InitSM3 /\ [][NextSM3]_vars

\* the routine is not preempted for ever: its next instruction is executed
SpecSM3Live == SpecSM3 /\ WF_vars(NextSM3)

---------------------------------------------------------------------------
(* The compression function as it is specified (GM/T 0004): bit by bit,    *)
(* on the same tuples of four bytes.                                       *)

\* bit i of x, bit 0 being the most significant
BitOf(x, i) == (x[(i \div 8) + 1] \div (2 ^ (7 - (i % 8)))) % 2

\* x rotated left by n bits
Rotl(x, n) ==
    W32([m \in 1 .. 4 |->
        BitOf(x, (8 * (m - 1) + n) % 32) * 128
        + BitOf(x, (8 * (m - 1) + 1 + n) % 32) * 64
        + BitOf(x, (8 * (m - 1) + 2 + n) % 32) * 32
        + BitOf(x, (8 * (m - 1) + 3 + n) % 32) * 16
        + BitOf(x, (8 * (m - 1) + 4 + n) % 32) * 8
        + BitOf(x, (8 * (m - 1) + 5 + n) % 32) * 4
        + BitOf(x, (8 * (m - 1) + 6 + n) % 32) * 2
        + BitOf(x, (8 * (m - 1) + 7 + n) % 32)])

Xor32(x, y) == W32([i \in 1 .. 4 |-> bxor(x[i], y[i])])
And32(x, y) == W32([i \in 1 .. 4 |-> band(x[i], y[i])])
Or32(x, y) == W32([i \in 1 .. 4 |-> 255 - band(255 - x[i], 255 - y[i])])
Not32(x) == W32([i \in 1 .. 4 |-> 255 - x[i]])

\* the carry into byte i of x + y, byte 4 being the least significant
RECURSIVE CarryInto(_, _, _)
CarryInto(x, y, i) ==
    IF i = 4 THEN 0 ELSE (x[i + 1] + y[i + 1] + CarryInto(x, y, i + 1)) \div 256

\* (x + y) mod 2^32
Add32(x, y) == W32([i \in 1 .. 4 |-> (x[i] + y[i] + CarryInto(x, y, i)) % 256])

T(j) == IF j < 16 THEN << 121, 204, 69, 25 >> ELSE << 122, 135, 157, 138 >>
FF(j, x, y, z) ==
    IF j < 16 THEN Xor32(Xor32(x, y), z)
    ELSE Or32(Or32(And32(x, y), And32(x, z)), And32(y, z))
GG(j, x, y, z) ==
    IF j < 16 THEN Xor32(Xor32(x, y), z)
    ELSE Or32(And32(x, y), And32(Not32(x), z))
P0(x) == Xor32(Xor32(x, Rotl(x, 9)), Rotl(x, 17))
P1(x) == Xor32(Xor32(x, Rotl(x, 15)), Rotl(x, 23))

\* the 16 big-endian words of the block at offset off of p
BlockWords(p, off) ==
    SubSeq([i \in 1 .. 16 |->
               << p[off + 4 * (i - 1) + 1], p[off + 4 * (i - 1) + 2],
                  p[off + 4 * (i - 1) + 3], p[off + 4 * (i - 1) + 4] >>],
           1, 16)

\* W[0 .. j] from W[0 .. j-1], for 16 <= j <= 67
Extend(W) ==
    Append(W,
        Xor32(Xor32(P1(Xor32(Xor32(W[(Len(W) - 16) + 1], W[(Len(W) - 9) + 1]),
                             Rotl(W[(Len(W) - 3) + 1], 15))),
                    Rotl(W[(Len(W) - 13) + 1], 7)),
              W[(Len(W) - 6) + 1]))

\* W extended by n words
RECURSIVE ExtendBy(_, _)
ExtendBy(W, n) == IF n = 0 THEN W ELSE Extend(ExtendBy(W, n - 1))

\* the 16 words M of a block extended by k times 13 words: W[0 .. 67] when
\* k = 4
RECURSIVE ExpandBy(_, _)
ExpandBy(M, k) ==
    IF k = 0 THEN M
    ELSE The({ ExtendBy(W, 13) : W \in { ExpandBy(M, k - 1) } })
Expand(M) == ExpandBy(M, 4)

\* round j on the state V = (A, B, C, D, E, F, G, H) of eight words
Round(V, W, j) ==
    LET Rotate(TT1, TT2) ==
            << TT1, V[1], Rotl(V[2], 9), V[3],
               P0(TT2), V[5], Rotl(V[6], 19), V[7] >>
        Sums(SS1) ==
            Rotate(Add32(Add32(Add32(FF(j, V[1], V[2], V[3]), V[4]),
                               Xor32(SS1, Rotl(V[1], 12))),
                         Xor32(W[j + 1], W[(j + 4) + 1])),
                   Add32(Add32(Add32(GG(j, V[5], V[6], V[7]), V[8]), SS1),
                         W[j + 1]))
    IN  IF Len(V) # 8 THEN V
        ELSE Sums(Rotl(Add32(Add32(Rotl(V[1], 12), V[5]),
                             Rotl(T(j), j % 32)), 7))

\* the state after rounds a .. b-1
RECURSIVE Rounds(_, _, _, _)
Rounds(V, W, a, b) ==
    IF a >= b THEN V ELSE Round(Rounds(V, W, a, b - 1), W, b - 1)

\* the state after rounds 0 .. 8k-1, eight rounds at a time
RECURSIVE Octets(_, _, _)
Octets(V, W, k) ==
    IF k = 0 THEN V
    ELSE The({ Rounds(v, W, 8 * (k - 1), 8 * k) :
               v \in { Octets(V, W, k - 1) } })

\* Compression(h, block64), the block at offset off of p
Compression(h, p, off) ==
    LET Final(V) == SubSeq([i \in 1 .. 8 |-> Xor32(h[i], V[i])], 1, 8)
    IN  The({ Final(Octets(h, W, 8)) : W \in { Expand(BlockWords(p, off)) } })

\* the registers that hold A .. H before the round macro call number j, and
\* after the last
Working(j) ==
    IF j < 64 THEN blockRounds[j + 1].regs
    ELSE << "R19", "R20", "R21", "R22", "R23", "R24", "R25", "R26" >>
View(r, j) ==
    SubSeq([i \in 1 .. 8 |-> r[Working(j)[i]]], 1, 8)

\* C12, the rounds: each round macro call number j uses the constant
\* rotl_j(T_j), of a macro with the XOR forms when j < 16 and with the
\* majority and select forms when j >= 16
C12_RoundCalls ==
    \A j \in 0 .. 63 :
        /\ blockRounds[j + 1].const = Rotl(T(j), j % 32)
        /\ blockRounds[j + 1].macro = (IF j < 12 THEN 0 ELSE IF j < 16 THEN 1 ELSE 2)

\* C12, one round: over the call number j the registers renamed for the
\* next call hold Round of those renamed for this call, with W[j] and
\* W'[j] = W[j] xor W[j+4] of the expanded block
C12_RoundStep ==
    s3.pc = "round" =>
        View(s3'.r, s3.j + 1)
            = Round(View(s3.r, s3.j),
                    Expand(BlockWords(s3.p, s3.r.SI)), s3.j)

\* C12, one block: before round 0 the registers R19 .. R26 hold the digest
\* words; after round 63 they hold A .. H in order, and once they are XORed
\* into H0 .. H7 the digest is Compression of the digest the block started
\* with
C12_Block ==
    /\ (s3.pc = "round" /\ s3.j = 0) => View(s3.r, 0) = s3.dig
    /\ s3.pc = "final" =>
          \E W \in { Expand(BlockWords(s3.p, s3.r.SI)) } :
              View(s3.r, 64) = Octets(s3.h0, W, 8)
    /\ (s3.pc \in {"loop", "end"} /\ s3.done > 0) =>
          s3.dig = Compression(s3.h0, s3.p, 64 * (s3.done - 1))

\* C12: for each 64-byte block the routine updates the eight digest words
\* exactly as Compression: round j uses rotl_j(T_j), the XOR forms of FF and
\* GG for j < 16 and the majority and select forms for j >= 16, and
\* W'[j] = W[j] xor W[j+4]; the renaming of R19 .. R26 from one round macro
\* call to the next implements D=C, C=rotl9(B), B=A, A=TT1, H=G, G=rotl19(F),
\* F=E, E=P0(TT2); after round 63 R19 .. R26 hold A .. H and are XORed into
\* H0 .. H7.
C12_Compression ==
    /\ [](C12_RoundCalls /\ C12_Block)
    /\ [][C12_RoundStep]_vars

\* the block of the padded "abc" compressed from the initial value: the
\* digest of the standard's first example
C12_Witness ==
    /\ s3.pc = "end" /\ s3.done = 1
    /\ s3.h0 = IV
    /\ SubSeq(s3.p, 1, 64) = AbcBlock
    /\ s3.dig = AbcDigest

\* the digest after Compression of blocks 0 .. n-1 of p, in order
RECURSIVE Compressed(_, _, _)
Compressed(h, p, n) ==
    IF n = 0 THEN h
    ELSE The({ Compression(v, p, 64 * (n - 1)) : v \in { Compressed(h, p, n - 1) } })

\* the number of whole blocks in a slice of len bytes
Blocks(len) == len \div 64

\* C17, the loop: the source pointer is 64 times the number of blocks
\* compressed and has not passed the end pointer, 64 times the number of
\* whole blocks; no byte at or beyond that offset has been read; at the label
\* loop the digest is that of the blocks compressed so far
C17_Loop ==
    s3.pc \in {"loop", "round", "final"} =>
        /\ s3.r.DI = 64 * Blocks(s3.len)
        /\ s3.r.SI = 64 * s3.done
        /\ s3.r.SI < s3.r.DI
        /\ \A off \in s3.r.rd : off < s3.r.SI + 64
        /\ s3.pc = "loop" => s3.dig = Compressed(s3.start, s3.p, s3.done)

\* C17, the return: exactly the whole blocks have been compressed, in order
\* from offset 0; the digest is as it was when there was none
C17_End ==
    s3.pc = "end" =>
        /\ s3.done = Blocks(s3.len)
        /\ s3.dig = Compressed(s3.start, s3.p, Blocks(s3.len))
        /\ s3.len < 64 => (s3.dig = s3.start /\ s3.r.rd = {})
        /\ \A off \in s3.r.rd : off < 64 * Blocks(s3.len)

\* C17: block called with a slice of L bytes compresses exactly L \div 64
\* blocks, in order from offset 0, and returns; it leaves the digest as it
\* was when L < 64, reads no byte at an offset of 64 * (L \div 64) or more,
\* and its loop ends for every L.
C17_WholeBlocks ==
    /\ [](C17_Loop /\ C17_End)
    /\ (s3.pc = "loop") ~> (s3.pc = "end")

\* a slice of 130 bytes: two blocks compressed, the digest of the standard's
\* second example, and the last two bytes not read
C17_Witness ==
    /\ s3.pc = "end" /\ s3.len = 130 /\ s3.done = 2
    /\ s3.dig = AbcdDigest
    /\ s3.r.rd = 0 .. 127

===========================================================================
